---------------------------- MODULE Spec2Model ----------------------------
(***************************************************************************)
(* Model of the block-cipher core of curseworkCRYPTO: the Twofish-style    *)
(* cipher ("Cipher A": key schedule, Feistel block engine) and the cipher  *)
(* session (CipherContext) with its modes of operation.                    *)
(*                                                                         *)
(* JavaScript numbers.  A bitwise operator of the source works on 32-bit   *)
(* signed integers; those are modelled as integers in -2^31 .. 2^31-1.     *)
(* The results of PHT and of the additions in the round function are       *)
(* doubles that leave that range; they are modelled exactly as pairs       *)
(* <<hi, lo>> standing for hi * 65536 + lo with lo in 0..65535 ("Num").    *)
(* null is <<>> and a non-null value v is <<v>>; undefined is <<>> where   *)
(* a Num is expected.                                                      *)
(***************************************************************************)
EXTENDS Integers, Sequences, FiniteSets, TLC

VARIABLES ctx, last, tc, mg, sessions

vars == <<ctx, last, tc, mg, sessions>>

---------------------------------------------------------------------------
(* null / undefined and non-null values *)

Null == <<>>

Some(v) == <<v>>

IsNull(x) == x = <<>>

Val(x) == x[1]

Undefined == <<>>

(* 0-based indexing of a JavaScript array held as a sequence *)
At(s, i) == s[i + 1]

---------------------------------------------------------------------------
(* 32-bit integer arithmetic of JavaScript *)

W16 == 65536

W24 == 16777216

RECURSIVE XorNat(_, _)
XorNat(a, b) ==
  IF a = 0 THEN b
  ELSE IF b = 0 THEN a
  ELSE (((a % 2) + (b % 2)) % 2) + 2 * XorNat(a \div 2, b \div 2)

RECURSIVE OrNat(_, _)
OrNat(a, b) ==
  IF a = 0 THEN b
  ELSE IF b = 0 THEN a
  ELSE (IF (a % 2) + (b % 2) > 0 THEN 1 ELSE 0) + 2 * OrNat(a \div 2, b \div 2)

(* a ^ b and a | b on 4-bit and on 8-bit operands, computed once *)
XorNib == [a \in 0..15 |-> [b \in 0..15 |-> XorNat(a, b)]]

OrNib == [a \in 0..15 |-> [b \in 0..15 |-> OrNat(a, b)]]

RECURSIVE AndNat(_, _)
AndNat(a, b) ==
  IF a = 0 \/ b = 0 THEN 0
  ELSE ((a % 2) * (b % 2)) + 2 * AndNat(a \div 2, b \div 2)

AndNib == [a \in 0..15 |-> [b \in 0..15 |-> AndNat(a, b)]]

XorTab ==
  [a \in 0..255 |-> [b \in 0..255 |->
     16 * XorNib[a \div 16][b \div 16] + XorNib[a % 16][b % 16]]]

OrTab ==
  [a \in 0..255 |-> [b \in 0..255 |->
     16 * OrNib[a \div 16][b \div 16] + OrNib[a % 16][b % 16]]]

AndTab ==
  [a \in 0..255 |-> [b \in 0..255 |->
     16 * AndNib[a \div 16][b \div 16] + AndNib[a % 16][b % 16]]]

(* a ^ b, a | b and a & b on 16-bit operands *)
Xor16(a, b) == 256 * XorTab[a \div 256][b \div 256] + XorTab[a % 256][b % 256]

Or16(a, b) == 256 * OrTab[a \div 256][b \div 256] + OrTab[a % 256][b % 256]

And16(a, b) == 256 * AndTab[a \div 256][b \div 256] + AndTab[a % 256][b % 256]

(* (x >> 24) & 0xFF, (x >> 16) & 0xFF, (x >> 8) & 0xFF, x & 0xFF of an int32 x *)
B3(x) == (x \div W24) % 256

B2(x) == (x \div W16) % 256

B1(x) == (x \div 256) % 256

B0(x) == x % 256

(* the int32 whose bytes, most significant first, are b3 b2 b1 b0 *)
MkInt32(b3, b2, b1, b0) ==
  (IF b3 >= 128 THEN b3 - 256 ELSE b3) * W24 + b2 * W16 + b1 * 256 + b0

BitXor(a, b) ==
  MkInt32(XorTab[B3(a)][B3(b)], XorTab[B2(a)][B2(b)],
          XorTab[B1(a)][B1(b)], XorTab[B0(a)][B0(b)])

BitOr(a, b) ==
  MkInt32(OrTab[B3(a)][B3(b)], OrTab[B2(a)][B2(b)],
          OrTab[B1(a)][B1(b)], OrTab[B0(a)][B0(b)])

(* x << 24, x << 16, x << 8 on an int32 x *)
Shl24(x) == MkInt32(B0(x), 0, 0, 0)

Shl16(x) == MkInt32(B1(x), B0(x), 0, 0)

Shl8(x) == MkInt32(B2(x), B1(x), B0(x), 0)

(* (a << 24) | (b << 16) | (c << 8) | d on int32 operands *)
Pack(a, b, c, d) == BitOr(BitOr(BitOr(Shl24(a), Shl16(b)), Shl8(c)), d)

(* JavaScript numbers beyond 32 bits: <<hi, lo>> is hi * 65536 + lo *)
NumOf(x) == <<x \div W16, x % W16>>

NumAdd(p, q) ==
  LET l == p[2] + q[2]
  IN  <<p[1] + q[1] + (l \div W16), l % W16>>

NumNeg(p) == IF p[2] = 0 THEN <<-p[1], 0>> ELSE <<-p[1] - 1, W16 - p[2]>>

(* p % 2**32: the remainder takes the sign of the dividend *)
NumRem32(p) ==
  IF p[1] >= 0 THEN <<p[1] % W16, p[2]>>
  ELSE LET m == NumNeg(p) IN NumNeg(<<m[1] % W16, m[2]>>)

(* ToInt32 of a number or of undefined *)
ToInt32(p) ==
  IF p = Undefined THEN 0
  ELSE LET h16 == p[1] % W16
       IN  (IF h16 >= 32768 THEN h16 - W16 ELSE h16) * W16 + p[2]

---------------------------------------------------------------------------
(* constants of the Twofish-style cipher *)

BLOCK_SIZE_BYTES == 16

HALF_BLOCK_SIZE_BYTES == BLOCK_SIZE_BYTES \div 2

NUM_ROUNDS == 16

MASTER_KEY_SIZE_BYTES == <<16, 24, 32>>

Q0 ==
  [t0 |-> <<8, 1, 7, 13, 6, 15, 3, 2, 0, 11, 5, 9, 14, 12, 10, 4>>,
   t1 |-> <<14, 12, 11, 8, 1, 2, 3, 5, 15, 4, 10, 6, 7, 0, 9, 13>>,
   t2 |-> <<11, 10, 5, 14, 6, 13, 9, 0, 12, 8, 15, 3, 2, 4, 7, 1>>,
   t3 |-> <<13, 7, 15, 4, 1, 2, 6, 14, 9, 11, 3, 0, 8, 5, 12, 10>>]

Q1 ==
  [t0 |-> <<2, 8, 11, 13, 15, 7, 6, 14, 3, 1, 9, 4, 0, 10, 12, 5>>,
   t1 |-> <<1, 14, 2, 11, 4, 12, 3, 7, 6, 13, 10, 5, 15, 9, 0, 8>>,
   t2 |-> <<4, 12, 7, 5, 1, 6, 9, 10, 0, 14, 13, 8, 2, 11, 3, 15>>,
   t3 |-> <<11, 9, 5, 1, 12, 3, 13, 14, 6, 4, 7, 15, 2, 0, 8, 10>>]

MDS_MATRIX ==
  <<<<1, 239, 91, 91>>,
    <<91, 239, 239, 1>>,
    <<239, 91, 1, 239>>,
    <<239, 1, 239, 91>>>>

RS_MATRIX ==
  <<<<1, 164, 85, 135, 90, 88, 219, 158>>,
    <<164, 86, 130, 243, 30, 198, 104, 229>>,
    <<2, 161, 252, 193, 71, 174, 61, 25>>,
    <<164, 85, 135, 90, 88, 219, 158, 3>>>>

RS_POLY == 361

---------------------------------------------------------------------------
(* tools.ts: q, multiplyGF, h, PHT *)

(* a ^ b and a ^ ROL4(b) ^ (8a & 0xF) on nibbles a, b *)
qA(a, b) == XorTab[a][b]

qB(a, b) == XorTab[XorTab[a][((2 * b) + (b \div 8)) % 16]][(8 * a) % 16]

(* one mix-and-substitute step of q through the tables ta, tb *)
qStep(a, b, ta, tb) == <<At(ta, qA(a, b)), At(tb, qB(a, b))>>

qSecond(p, qTable) == qStep(p[1], p[2], qTable.t2, qTable.t3)

qJoin(p) == 16 * p[2] + p[1]

q(x, qTable) ==
  qJoin(qSecond(qStep((x \div 16) % 16, x % 16, qTable.t0, qTable.t1), qTable))

(* q over all bytes, computed once per table *)
qQ0 == [x \in 0..255 |-> q(x, Q0)]

qQ1 == [x \in 0..255 |-> q(x, Q1)]

(* if (a & 0x100) a ^= RS_POLY *)
reduceGF(a) == IF (a \div 256) % 2 = 1 THEN XorNat(a, RS_POLY) ELSE a

RECURSIVE multiplyGFLoop(_, _, _)
multiplyGFLoop(a, b, result) ==
  IF b > 0
  THEN multiplyGFLoop(reduceGF(2 * a), b \div 2,
                      IF b % 2 = 1 THEN XorNat(result, a) ELSE result)
  ELSE result

(* the shift-and-add loop with the reduction step left out *)
RECURSIVE multiplyGFUnreduced(_, _)
multiplyGFUnreduced(a, b) ==
  IF b > 0
  THEN XorNat(IF b % 2 = 1 THEN a ELSE 0, multiplyGFUnreduced(2 * a, b \div 2))
  ELSE 0

multiplyGF(a, b) == multiplyGFLoop(a, b, 0)

(* the multipliers the cipher uses: the entries of MDS_MATRIX and RS_MATRIX *)
MatrixEntries ==
  {MDS_MATRIX[r][c] : r \in 1..4, c \in 1..4} \cup
  {RS_MATRIX[r][c] : r \in 1..4, c \in 1..8}

(* multiplyGF(a, b) for each multiplier a and byte b, computed once *)
multiplyGFTab == [a \in MatrixEntries |-> [b \in 0..255 |-> multiplyGF(a, b)]]

GF(a, b) == multiplyGFTab[a][b]

Xor4(a, b, c, d) == XorTab[XorTab[XorTab[a][b]][c]][d]

(* the MDS step that ends h and gFunction: y is an int32, the result an int32 *)
mdsRow(row, y) ==
  Xor4(GF(MDS_MATRIX[row + 1][1], B3(y)), GF(MDS_MATRIX[row + 1][2], B2(y)),
       GF(MDS_MATRIX[row + 1][3], B1(y)), GF(MDS_MATRIX[row + 1][4], B0(y)))

mdsMultiply(y) == MkInt32(mdsRow(0, y), mdsRow(1, y), mdsRow(2, y), mdsRow(3, y))

(* the bytes <<y0, y1, y2, y3>> of h, most significant byte of x first *)
hBytes(x) == <<B3(x), B2(x), B1(x), B0(x)>>

(* if (k >= 4): the layer keyed by lVector[3] *)
hLayer4(y, lVector) ==
  IF Len(lVector) >= 4
  THEN <<XorTab[qQ1[y[1]]][B0(At(lVector, 3))], XorTab[qQ1[y[2]]][B1(At(lVector, 3))],
         XorTab[qQ0[y[3]]][B2(At(lVector, 3))], XorTab[qQ1[y[4]]][B3(At(lVector, 3))]>>
  ELSE y

(* if (k >= 3): the layer keyed by lVector[2] *)
hLayer3(y, lVector) ==
  IF Len(lVector) >= 3
  THEN <<XorTab[qQ1[y[1]]][B0(At(lVector, 2))], XorTab[qQ1[y[2]]][B1(At(lVector, 2))],
         XorTab[qQ0[y[3]]][B2(At(lVector, 2))], XorTab[qQ0[y[4]]][B3(At(lVector, 2))]>>
  ELSE y

(* the layers keyed by lVector[1] and lVector[0], packed into y *)
hLayers(y, L1, L0) ==
  MkInt32(qQ1[XorTab[qQ0[XorTab[qQ0[y[1]]][B3(L1)]]][B3(L0)]],
          qQ0[XorTab[qQ0[XorTab[qQ1[y[2]]][B2(L1)]]][B2(L0)]],
          qQ1[XorTab[qQ1[XorTab[qQ0[y[3]]][B1(L1)]]][B1(L0)]],
          qQ0[XorTab[qQ1[XorTab[qQ1[y[4]]][B0(L1)]]][B0(L0)]])

(* h(x, lVector): x a number or undefined, lVector a sequence of int32 *)
h(x, lVector) ==
  mdsMultiply(hLayers(hLayer3(hLayer4(hBytes(ToInt32(x)), lVector), lVector),
                      At(lVector, 1), At(lVector, 0)))

(* PHT(a, b) = [(a + b) % 2**32, (a + 2*b) % 2**32] on numbers *)
PHT(a, b) == <<NumRem32(NumAdd(a, b)), NumRem32(NumAdd(a, NumAdd(b, b)))>>

---------------------------------------------------------------------------
(* bits_operation.ts: rot, bytesToWords, wordsToBytes, xorBytes *)

Pow2 == [s \in 0..16 |-> 2 ^ s]

(* the 32-bit value with 16-bit halves hi and lo rotated left by t bits, t < 16 *)
rotHalves(hi, lo, t) ==
  ToInt32(<<((hi * Pow2[t]) % W16) + (lo \div Pow2[16 - t]),
            ((lo * Pow2[t]) % W16) + (hi \div Pow2[16 - t])>>)

(* left rotation by s bits, 0 <= s < 32, of the unsigned 32-bit value of n *)
rotl(n, s) ==
  IF s >= 16 THEN rotHalves(n % W16, (n \div W16) % W16, s % 16)
  ELSE rotHalves((n \div W16) % W16, n % W16, s % 16)

(* rot(n, bits) for an int32 n and -32 < bits < 32: left when bits > 0, else right *)
rot(n, bits) == IF bits > 0 THEN rotl(n, bits) ELSE rotl(n, (32 + bits) % 32)

(* a byte read past the end of the array is undefined and shifts to 0 *)
byteOr0(bytes, i) == IF i < Len(bytes) THEN At(bytes, i) ELSE 0

bytesToWords(bytes) ==
  [w \in 1..((Len(bytes) + 3) \div 4) |->
     MkInt32(byteOr0(bytes, 4 * (w - 1)), byteOr0(bytes, 4 * (w - 1) + 1),
             byteOr0(bytes, 4 * (w - 1) + 2), byteOr0(bytes, 4 * (w - 1) + 3))]

wordByte(word, j) ==
  IF j = 0 THEN B3(word) ELSE IF j = 1 THEN B2(word) ELSE IF j = 2 THEN B1(word) ELSE B0(word)

wordsToBytes(words) ==
  [i \in 1..(4 * Len(words)) |-> wordByte(words[((i - 1) \div 4) + 1], (i - 1) % 4)]

(* results of operations that can throw: ok with a value, or an error *)
Ok(v) == [ok |-> TRUE, val |-> v, err |-> ""]

Err(e) == [ok |-> FALSE, val |-> Null, err |-> e]

xorBytes(a, b) ==
  IF Len(a) # Len(b) THEN Err("XorLength")
  ELSE Ok([i \in 1..Len(a) |-> XorTab[a[i]][b[i]]])

---------------------------------------------------------------------------
(* twoFish/KeyExpansion.ts *)

(* little-endian 32-bit word of masterKey[o .. o+3] *)
keyWord(masterKey, o) ==
  MkInt32(At(masterKey, o + 3), At(masterKey, o + 2), At(masterKey, o + 1), At(masterKey, o))

RECURSIVE rsSum(_, _, _)
rsSum(row, keyBytes, col) ==
  IF col = 8 THEN 0
  ELSE XorTab[GF(RS_MATRIX[row + 1][col + 1], At(keyBytes, col))][rsSum(row, keyBytes, col + 1)]

sBytesWord(keyBytes) ==
  MkInt32(rsSum(0, keyBytes, 0), rsSum(1, keyBytes, 0),
          rsSum(2, keyBytes, 0), rsSum(3, keyBytes, 0))

(* the S word of the 8-byte chunk i of the key *)
sWord(masterKey, i) == sBytesWord(SubSeq(masterKey, 8 * i + 1, 8 * (i + 1)))

keyM(masterKey) ==
  [n \in 1..(2 * (Len(masterKey) \div 8)) |-> keyWord(masterKey, 4 * (n - 1))]

(* S[k - 1 - i] is the S word of chunk i *)
keyS(masterKey) ==
  [n \in 1..(Len(masterKey) \div 8) |-> sWord(masterKey, (Len(masterKey) \div 8) - n)]

(* this.M[j]: a number, or undefined past the end of M *)
wordOrUndefined(M, j) == IF j < Len(M) THEN NumOf(At(M, j)) ELSE Undefined

(* temp = PHT(h(M[2i], M), h(M[2i + 1], M)) *)
roundKeyPair(i, M) ==
  PHT(NumOf(h(wordOrUndefined(M, 2 * i), M)), NumOf(h(wordOrUndefined(M, 2 * i + 1), M)))

generateRoundKeysInternal(M) ==
  [n \in 1..40 |-> roundKeyPair((n - 1) \div 2, M)[((n - 1) % 2) + 1]]

generateSBoxesInternal(S) ==
  [i \in 1..4 |-> [j \in 1..256 |-> h(NumOf(j - 1), S)]]

(* new KeyExpansion(masterKey): the schedule object *)
KeyExpansion(masterKey) ==
  [roundKeys |-> Some(generateRoundKeysInternal(keyM(masterKey))),
   sBoxes    |-> Some(generateSBoxesInternal(keyS(masterKey)))]

(* new IKeyExpansion(): no round keys, no S-boxes *)
IKeyExpansion == [roundKeys |-> Null, sBoxes |-> Null]

---------------------------------------------------------------------------
(* twoFish/FeistelBlockCipher.ts *)

gFunction(x, sBoxes) ==
  mdsMultiply(Pack(At(sBoxes[1], B3(x)), At(sBoxes[2], B2(x)),
                   At(sBoxes[3], B1(x)), At(sBoxes[4], B0(x))))

(* w ^= round_keys[i] on int32 operands *)
whiten(w, round_keys, i) == BitXor(w, ToInt32(At(round_keys, i)))

(* w0..w3 ^= round_keys[o .. o+3] *)
whitenWords(w, round_keys, o) == [i \in 1..4 |-> whiten(w[i], round_keys, o + i - 1)]

(* the first four words; a missing word is undefined, which ^= reads as 0 *)
firstFourWords(words) == [i \in 1..4 |-> IF i <= Len(words) THEN words[i] ELSE 0]

(* [f0, f1] = PHT(g(w0), g(rot(w1, 8))) *)
roundF(w, sBoxes) ==
  PHT(NumOf(gFunction(w[1], sBoxes)), NumOf(gFunction(rot(w[2], 8), sBoxes)))

(* [w0, w1, w2, w3] = [w2, w3, w0, w1] if (r < NUM_ROUNDS - 1) *)
swapUnlessLast(w, r) == IF r < NUM_ROUNDS - 1 THEN <<w[3], w[4], w[1], w[2]>> ELSE w

encryptMix(w, f, r, roundKeys) ==
  <<w[1], w[2],
    rot(BitXor(w[3], ToInt32(NumAdd(f[1], At(roundKeys, 2 * r + 8)))), -1),
    BitXor(rot(w[4], 1), ToInt32(NumAdd(f[2], At(roundKeys, 2 * r + 9))))>>

(* one round of encryptBlock on <<w0, w1, w2, w3>>, the swap included *)
encryptRound(w, r, roundKeys, sBoxes) ==
  swapUnlessLast(encryptMix(w, roundF(w, sBoxes), r, roundKeys), r)

RECURSIVE encryptRounds(_, _, _, _)
encryptRounds(w, r, roundKeys, sBoxes) ==
  IF r < NUM_ROUNDS /\ Len(w) = 4
  THEN encryptRounds(encryptRound(w, r, roundKeys, sBoxes), r + 1, roundKeys, sBoxes)
  ELSE w

(* encryptBlock(blk, round_keys) of an engine whose keyExpansion_ is ke *)
encryptBlock(blk, round_keys, ke) ==
  IF IsNull(ke.sBoxes) THEN Err("NoSBoxes")
  ELSE IF IsNull(ke.roundKeys) THEN Err("NoRoundKeys")
  ELSE Ok(wordsToBytes(whitenWords(
            encryptRounds(whitenWords(firstFourWords(bytesToWords(blk)), round_keys, 0),
                          0, Val(ke.roundKeys), Val(ke.sBoxes)),
            round_keys, 4)))

(* the update of w2 and w3 in decryptBlock with the two rotations exchanged *)
decryptMixRotationsExchanged(w, f, r, roundKeys) ==
  <<w[1], w[2],
    BitXor(rot(w[3], -1), ToInt32(NumAdd(f[1], At(roundKeys, 2 * r + 8)))),
    rot(BitXor(w[4], ToInt32(NumAdd(f[2], At(roundKeys, 2 * r + 9)))), 1)>>

decryptMix(w, f, r, roundKeys) ==
  <<w[1], w[2],
    BitXor(rot(w[3], 1), ToInt32(NumAdd(f[1], At(roundKeys, 2 * r + 8)))),
    rot(BitXor(w[4], ToInt32(NumAdd(f[2], At(roundKeys, 2 * r + 9)))), -1)>>

decryptSwapped(w, r, roundKeys, sBoxes) == decryptMix(w, roundF(w, sBoxes), r, roundKeys)

(* one round of decryptBlock, the swap before it included *)
decryptRound(w, r, roundKeys, sBoxes) ==
  decryptSwapped(swapUnlessLast(w, r), r, roundKeys, sBoxes)

RECURSIVE decryptRounds(_, _, _, _)
decryptRounds(w, r, roundKeys, sBoxes) ==
  IF r >= 0 /\ Len(w) = 4
  THEN decryptRounds(decryptRound(w, r, roundKeys, sBoxes), r - 1, roundKeys, sBoxes)
  ELSE w

decryptBlock(blk, round_keys, ke) ==
  IF IsNull(ke.sBoxes) THEN Err("NoSBoxes")
  ELSE IF Len(blk) # BLOCK_SIZE_BYTES THEN Err("CiphertextLength")
  ELSE Ok(wordsToBytes(whitenWords(
            decryptRounds(whitenWords(firstFourWords(bytesToWords(blk)), round_keys, 4),
                          NUM_ROUNDS - 1, Val(ke.roundKeys), Val(ke.sBoxes)),
            round_keys, 0)))

---------------------------------------------------------------------------
(* sample data: the keys, blocks and IVs the operations are called with *)

NBlocks == 3

NKeyVariants == 1

(* 16-byte blocks: all-zero, all-0xFF, then pseudo-random contents *)
SampleBytes(i, len) ==
  [j \in 1..len |->
     IF i = 0 THEN 0 ELSE IF i = 1 THEN 255 ELSE (73 * i + 29 * j + 11) % 256]

SampleBlocks == {SampleBytes(i, BLOCK_SIZE_BYTES) : i \in 0..(NBlocks - 1)}

(* inputs that are not one block: empty, half a block, two blocks *)
OddInputs ==
  {<<>>, SampleBytes(2, HALF_BLOCK_SIZE_BYTES), SampleBytes(3, 2 * BLOCK_SIZE_BYTES)}

SampleKey(v, len) == [j \in 1..len |-> (17 * j + 101 * v + 3 * len) % 256]

ValidKeys ==
  {SampleKey(v, MASTER_KEY_SIZE_BYTES[n]) : v \in 0..(NKeyVariants - 1), n \in 1..3}

(* keys setMasterKey is called with: valid ones, a missing one, wrong lengths *)
KeyInputs == {Some(k) : k \in ValidKeys} \cup {Null, Some(SampleKey(0, 8)), Some(<<>>)}

(* IVs setIv is called with: null, empty, 8 bytes, 16 bytes *)
IvInputs ==
  {Null, Some(<<>>), Some(SampleBytes(4, 8)), Some(SampleBytes(5, 8)),
   Some(SampleBytes(6, 16)), Some(SampleBytes(0, 16))}

---------------------------------------------------------------------------
(* the cipher session: CipherContextBase and twoFish/CipherContext *)

(* BLOCK_SIZE_BYTES of constants/macGuffin, the block size of Cipher B *)
MACGUFFIN_BLOCK_SIZE_BYTES == 8

CipherMode == {"ECB", "CBC", "PCBC", "CFB", "OFB", "CTR", "RANDOM_DELTA"}

(* a value of the mode field that is no CipherMode member *)
ModeInputs == CipherMode \cup {"UNKNOWN"}

CipherPadding == {"Zeros", "ANSIX923", "PKCS7", "ISO10126"}

(* new CipherContext() *)
NewCipherContext ==
  [masterKey_   |-> Null,
   blockCipher  |-> "IBlockCipher",
   keyExpansion |-> IKeyExpansion,
   mode         |-> "ECB",
   padding      |-> "Zeros",
   iv           |-> Null]

(* an operation's outcome: the session after it and what it returned or threw *)
Return(c, v) == [ctx |-> c, res |-> Ok(v)]

Throw(c, e) == [ctx |-> c, res |-> Err(e)]

(* the key schedules of the sample keys, derived once each *)
KeyExpansionMemo == [k \in ValidKeys |-> KeyExpansion(k)]

newKeyExpansion(masterKey) ==
  IF masterKey \in DOMAIN KeyExpansionMemo THEN KeyExpansionMemo[masterKey]
  ELSE KeyExpansion(masterKey)

(* CipherContext.getBlockSizeBytes: the static FeistelBlockCipher.getBlockSizeBytes *)
getBlockSizeBytes == HALF_BLOCK_SIZE_BYTES * 2

(* this.blockCipher.getBlockSizeBytes(): FeistelBlockCipher declares it static, so *)
(* an instance has only the one inherited from IBlockCipher, which throws        *)
blockCipherGetBlockSizeBytes(c) == Err("NotImplemented")

(* this.blockCipher.encryptBlock / decryptBlock; the engine shares the schedule object *)
blockCipherEncryptBlock(c, blk, round_keys) ==
  IF c.blockCipher = "IBlockCipher" THEN Err("NotImplemented")
  ELSE encryptBlock(blk, round_keys, c.keyExpansion)

blockCipherDecryptBlock(c, blk, round_keys) ==
  IF c.blockCipher = "IBlockCipher" THEN Err("NotImplemented")
  ELSE decryptBlock(blk, round_keys, c.keyExpansion)

(* setMasterKey made to drop the bound schedule when it refuses a key *)
setMasterKeyUnbinds(c, masterKey) ==
  IF IsNull(masterKey)
     \/ ~(\E n \in 1..Len(MASTER_KEY_SIZE_BYTES) :
            MASTER_KEY_SIZE_BYTES[n] = Len(Val(masterKey)))
  THEN Throw([c EXCEPT !.keyExpansion = IKeyExpansion], "InvalidKeyLength")
  ELSE Return([c EXCEPT !.blockCipher = "FeistelBlockCipher",
                        !.keyExpansion = newKeyExpansion(Val(masterKey)),
                        !.masterKey_ = masterKey], Null)

setMasterKey(c, masterKey) ==
  IF IsNull(masterKey)
     \/ ~(\E n \in 1..Len(MASTER_KEY_SIZE_BYTES) :
            MASTER_KEY_SIZE_BYTES[n] = Len(Val(masterKey)))
  THEN Throw(c, "InvalidKeyLength")
  ELSE Return([c EXCEPT !.blockCipher = "FeistelBlockCipher",
                        !.keyExpansion = newKeyExpansion(Val(masterKey)),
                        !.masterKey_ = masterKey], Null)

setMode(c, mode) == Return([c EXCEPT !.mode = mode], Null)

setPadding(c, padding) == Return([c EXCEPT !.padding = padding], Null)

(* setIv with the length of the IV compared with the block size of the session *)
setIvBlockSized(c, iv) ==
  IF ~IsNull(iv) /\ Len(Val(iv)) # BLOCK_SIZE_BYTES
  THEN Throw(c, "InvalidIvLength")
  ELSE Return([c EXCEPT !.iv = iv], Null)

setIv(c, iv) ==
  IF ~IsNull(iv) /\ Len(Val(iv)) # MACGUFFIN_BLOCK_SIZE_BYTES
  THEN Throw(c, "InvalidIvLength")
  ELSE Return([c EXCEPT !.iv = iv], Null)

roundKeysOf(c) == Val(c.keyExpansion.roundKeys)

(* returnResult after an engine that takes its whitening words out of the *)
(* schedule it was given                                                  *)
returnResultShiftsKeys(c, r) ==
  IF ~r.ok THEN Throw(c, r.err)
  ELSE Return([c EXCEPT !.keyExpansion.roundKeys = Some(Tail(Val(@)))], Some(r.val))

(* return r, or rethrow what computing r threw *)
returnResult(c, r) == IF ~r.ok THEN Throw(c, r.err) ELSE Return(c, Some(r.val))

(* this.setIv(...) has run with outcome s: rethrow, or go on to return block *)
returnAfterSetIv(s, block) == IF ~s.res.ok THEN s ELSE Return(s.ctx, Some(block))

(* encryptECB made to ask for an IV as the chained modes do *)
encryptECBNeedsIv(c, currentBlock) ==
  IF IsNull(c.iv) THEN Throw(c, "MissingIv")
  ELSE returnResult(c, blockCipherEncryptBlock(c, currentBlock, roundKeysOf(c)))

(* case CipherMode.ECB of encrypt *)
encryptECB(c, currentBlock) ==
  returnResult(c, blockCipherEncryptBlock(c, currentBlock, roundKeysOf(c)))

(* CBC and CFB encrypt: this.setIv(encryptedBlock), then return encryptedBlock *)
setIvToResult(c, encryptedBlock) ==
  IF ~encryptedBlock.ok THEN Throw(c, encryptedBlock.err)
  ELSE returnAfterSetIv(setIv(c, Some(encryptedBlock.val)), encryptedBlock.val)

(* CBC and PCBC encrypt: encryptBlock(xoredBlock, roundKeys) *)
encryptXored(c, xoredBlock) ==
  IF ~xoredBlock.ok THEN xoredBlock
  ELSE blockCipherEncryptBlock(c, xoredBlock.val, roundKeysOf(c))

(* encryptCBC made to take a missing IV for a block of zeros *)
encryptCBCZeroIv(c, currentBlock) ==
  setIvToResult(c, encryptXored(c,
    IF IsNull(c.iv) THEN Ok(currentBlock) ELSE xorBytes(currentBlock, Val(c.iv))))

(* case CipherMode.CBC of encrypt *)
encryptCBC(c, currentBlock) ==
  IF IsNull(c.iv) THEN Throw(c, "MissingIv")
  ELSE setIvToResult(c, encryptXored(c, xorBytes(currentBlock, Val(c.iv))))

(* PCBC: this.setIv(nextIv) with nextIv the XOR of plaintext and ciphertext *)
setIvPCBC(c, nextIv, block) ==
  IF ~nextIv.ok THEN Throw(c, nextIv.err)
  ELSE returnAfterSetIv(setIv(c, Some(nextIv.val)), block)

(* PCBC encrypt from this.setIv(xorBytes(currentBlock, encryptedBlock)) on *)
encryptPCBCSetIv(c, currentBlock, encryptedBlock) ==
  IF ~encryptedBlock.ok THEN Throw(c, encryptedBlock.err)
  ELSE setIvPCBC(c, xorBytes(currentBlock, encryptedBlock.val), encryptedBlock.val)

(* case CipherMode.PCBC of encrypt *)
encryptPCBC(c, currentBlock) ==
  IF IsNull(c.iv) THEN Throw(c, "MissingIv")
  ELSE encryptPCBCSetIv(c, currentBlock,
                        encryptXored(c, xorBytes(currentBlock, Val(c.iv))))

(* CFB: xorBytes(currentBlock, streamCFB) *)
xorStream(currentBlock, stream) ==
  IF ~stream.ok THEN stream ELSE xorBytes(currentBlock, stream.val)

(* case CipherMode.CFB of encrypt *)
encryptCFB(c, currentBlock) ==
  IF IsNull(c.iv) THEN Throw(c, "MissingIv")
  ELSE setIvToResult(c, xorStream(currentBlock,
                            blockCipherEncryptBlock(c, Val(c.iv), roundKeysOf(c))))

(* OFB from xorBytes(currentBlock, this.iv) on, s the outcome of this.setIv(...) *)
xorNewIv(s, currentBlock) ==
  IF ~s.res.ok THEN s
  ELSE returnResult(s.ctx, xorBytes(currentBlock, Val(s.ctx.iv)))

(* OFB: this.setIv(encryptBlock(this.iv, roundKeys)) *)
setIvOFB(c, stream) ==
  IF ~stream.ok THEN Throw(c, stream.err) ELSE setIv(c, Some(stream.val))

(* case CipherMode.OFB of encrypt and of decrypt: the two are the same statements *)
encryptOFB(c, currentBlock) ==
  IF IsNull(c.iv) THEN Throw(c, "MissingIv")
  ELSE xorNewIv(setIvOFB(c, blockCipherEncryptBlock(c, Val(c.iv), roundKeysOf(c))),
                currentBlock)

(* new DataView(currentBlock.buffer).getUint32(0): big-endian, the first four bytes *)
getUint32(bytes) == <<256 * bytes[1] + bytes[2], 256 * bytes[3] + bytes[4]>>

NumIsPositive(p) == p[1] > 0 \/ (p[1] = 0 /\ p[2] > 0)

(* counterBlock[k] = sum & 0xFF *)
setByte(counterBlock, k, sum) == [counterBlock EXCEPT ![k + 1] = sum[2] % 256]

RECURSIVE addCarry(_, _, _)
(* one turn of the loop with sum = counterBlock[k] + carry already formed *)
addSum(counterBlock, k, sum) ==
  addCarry(setByte(counterBlock, k, sum), k - 1, NumOf(ToInt32(sum) \div 256))

(* the loop that adds carry into the counter block from its last byte down *)
addCarry(counterBlock, k, carry) ==
  IF k >= 0 /\ NumIsPositive(carry)
  THEN addSum(counterBlock, k, NumAdd(NumOf(At(counterBlock, k)), carry))
  ELSE counterBlock

(* new Uint8Array(n) followed by counterBlock.set(this.iv) *)
counterBlockOf(n, iv) == [j \in 1..n |-> IF j <= Len(iv) THEN iv[j] ELSE 0]

(* CTR from the counter block on, n the outcome of this.blockCipher.getBlockSizeBytes() *)
encryptCounter(c, currentBlock, n) ==
  IF ~n.ok THEN Throw(c, n.err)
  ELSE IF Len(Val(c.iv)) > n.val THEN Throw(c, "RangeError")
  ELSE IF Len(currentBlock) < 4 THEN Throw(c, "RangeError")
  ELSE returnResult(c,
         xorStream(SubSeq(currentBlock, 33, Len(currentBlock)),
                   blockCipherEncryptBlock(c,
                     addCarry(counterBlockOf(n.val, Val(c.iv)), n.val - 1,
                              getUint32(currentBlock)),
                     roundKeysOf(c))))

(* case CipherMode.CTR of encrypt and of decrypt: the two are the same statements *)
encryptCTR(c, currentBlock) ==
  IF IsNull(c.iv) THEN Throw(c, "MissingIv")
  ELSE encryptCounter(c, currentBlock, blockCipherGetBlockSizeBytes(c))

(* encrypt without its test of the round keys *)
encryptWithoutKeyTest(c, currentBlock) ==
  IF Len(currentBlock) = 0 THEN Throw(c, "EmptyData")
  ELSE CASE c.mode = "ECB" -> encryptECB(c, currentBlock)
         [] c.mode = "CBC" -> encryptCBC(c, currentBlock)
         [] c.mode = "PCBC" -> encryptPCBC(c, currentBlock)
         [] c.mode = "CFB" -> encryptCFB(c, currentBlock)
         [] c.mode = "OFB" -> encryptOFB(c, currentBlock)
         [] c.mode = "CTR" -> encryptCTR(c, currentBlock)
         [] c.mode = "RANDOM_DELTA" -> Return(c, Null)
         [] OTHER -> Throw(c, "UnsupportedMode")

encrypt(c, currentBlock) ==
  IF IsNull(c.keyExpansion.roundKeys) THEN Throw(c, "NoRoundKeys")
  ELSE IF Len(currentBlock) = 0 THEN Throw(c, "EmptyData")
  ELSE CASE c.mode = "ECB" -> encryptECB(c, currentBlock)
         [] c.mode = "CBC" -> encryptCBC(c, currentBlock)
         [] c.mode = "PCBC" -> encryptPCBC(c, currentBlock)
         [] c.mode = "CFB" -> encryptCFB(c, currentBlock)
         [] c.mode = "OFB" -> encryptOFB(c, currentBlock)
         [] c.mode = "CTR" -> encryptCTR(c, currentBlock)
         [] c.mode = "RANDOM_DELTA" -> Return(c, Null)
         [] OTHER -> Throw(c, "UnsupportedMode")

(* case CipherMode.ECB of decrypt *)
decryptECB(c, currentBlock) ==
  returnResult(c, blockCipherDecryptBlock(c, currentBlock, roundKeysOf(c)))

(* CBC and PCBC decrypt: decryptedBlock = xorBytes(decryptedBlock, this.iv) *)
xorIv(c, decryptedBlock) ==
  IF ~decryptedBlock.ok THEN decryptedBlock
  ELSE xorBytes(decryptedBlock.val, Val(c.iv))

(* CBC and CFB decrypt: this.setIv(currentBlock), then return decryptedBlock *)
setIvToInput(c, currentBlock, decryptedBlock) ==
  IF ~decryptedBlock.ok THEN Throw(c, decryptedBlock.err)
  ELSE returnAfterSetIv(setIv(c, Some(currentBlock)), decryptedBlock.val)

(* case CipherMode.CBC of decrypt *)
decryptCBC(c, currentBlock) ==
  IF IsNull(c.iv) THEN Throw(c, "MissingIv")
  ELSE setIvToInput(c, currentBlock,
                    xorIv(c, blockCipherDecryptBlock(c, currentBlock, roundKeysOf(c))))

(* PCBC decrypt from this.setIv(xorBytes(decryptedBlock, currentBlock)) on *)
decryptPCBCSetIv(c, currentBlock, decryptedBlock) ==
  IF ~decryptedBlock.ok THEN Throw(c, decryptedBlock.err)
  ELSE setIvPCBC(c, xorBytes(decryptedBlock.val, currentBlock), decryptedBlock.val)

(* case CipherMode.PCBC of decrypt *)
decryptPCBC(c, currentBlock) ==
  IF IsNull(c.iv) THEN Throw(c, "MissingIv")
  ELSE decryptPCBCSetIv(c, currentBlock,
                        xorIv(c, blockCipherDecryptBlock(c, currentBlock, roundKeysOf(c))))

(* case CipherMode.CFB of decrypt *)
decryptCFB(c, currentBlock) ==
  IF IsNull(c.iv) THEN Throw(c, "MissingIv")
  ELSE setIvToInput(c, currentBlock,
                    xorStream(currentBlock,
                              blockCipherEncryptBlock(c, Val(c.iv), roundKeysOf(c))))

(* decrypt from the alignment test on, n the outcome of this.blockCipher.getBlockSizeBytes() *)
decryptAligned(c, currentBlock, n) ==
  IF ~n.ok THEN Throw(c, n.err)
  ELSE IF Len(currentBlock) % n.val # 0 THEN Throw(c, "MisalignedCiphertext")
  ELSE CASE c.mode = "ECB" -> decryptECB(c, currentBlock)
         [] c.mode = "CBC" -> decryptCBC(c, currentBlock)
         [] c.mode = "PCBC" -> decryptPCBC(c, currentBlock)
         [] c.mode = "CFB" -> decryptCFB(c, currentBlock)
         [] c.mode = "OFB" -> encryptOFB(c, currentBlock)
         [] c.mode = "CTR" -> encryptCTR(c, currentBlock)
         [] c.mode = "RANDOM_DELTA" -> Return(c, Null)
         [] OTHER -> Throw(c, "UnsupportedMode")

(* decrypt without its test of the input's length *)
decryptUnchecked(c, currentBlock) ==
  IF IsNull(c.keyExpansion.roundKeys) THEN Throw(c, "NoRoundKeys")
  ELSE decryptAligned(c, currentBlock, Ok(1))

decrypt(c, currentBlock) ==
  IF IsNull(c.keyExpansion.roundKeys) THEN Throw(c, "NoRoundKeys")
  ELSE IF Len(currentBlock) = 0 THEN Throw(c, "MisalignedCiphertext")
  ELSE decryptAligned(c, currentBlock, blockCipherGetBlockSizeBytes(c))

---------------------------------------------------------------------------
(* whole messages: CipherContext.encryptFile and decryptFile.  A File or    *)
(* Blob is the bytes FileReader reads from it; an argument that is neither  *)
(* is null here.  The read is taken to succeed and the method to run        *)
(* without another call on the session in between.                          *)

(* the content of new Blob([x]): the bytes of x, or the text "null" *)
blobOf(x) == IF IsNull(x) THEN <<110, 117, 108, 108>> ELSE Val(x)

(* return new Blob([result]) unless computing result threw *)
returnBlob(out) == IF ~out.res.ok THEN out ELSE Return(out.ctx, Some(blobOf(out.res.val)))

encryptFile(c, inputFile) ==
  IF IsNull(inputFile) THEN Throw(c, "NotABlob")
  ELSE IF IsNull(c.masterKey_) THEN Throw(c, "NoMasterKey")
  ELSE returnBlob(encrypt(c, Val(inputFile)))

decryptFile(c, inputFile) ==
  IF IsNull(inputFile) THEN Throw(c, "NotABlob")
  ELSE IF IsNull(c.masterKey_) THEN Throw(c, "NoMasterKey")
  ELSE returnBlob(decrypt(c, Val(inputFile)))

(* files the helpers are called with: empty, part of a block, one block,   *)
(* a block and a part, two blocks; and an argument that is no Blob          *)
FileInputs ==
  {Some(SampleBytes(2, len)) :
     len \in {0, 5, BLOCK_SIZE_BYTES, BLOCK_SIZE_BYTES + 4, 2 * BLOCK_SIZE_BYTES}}
    \cup {Null}

---------------------------------------------------------------------------
(* padding: CipherContextBase._addPadding and _removePadding, on a session  *)
(* whose getBlockSizeBytes is the one of CipherContext                      *)

(* a padding length that is 0 for block-aligned data *)
paddingLengthOrNone(data) ==
  (getBlockSizeBytes - (Len(data) % getBlockSizeBytes)) % getBlockSizeBytes

(* blockSize - (data.length % blockSize); it is never 0 *)
paddingLengthOf(data) == getBlockSizeBytes - (Len(data) % getBlockSizeBytes)

(* the k-th of the paddingLength bytes appended; rnd holds the random bytes *)
padByte(padding, k, paddingLength, rnd) ==
  CASE padding = "Zeros" -> 0
    [] padding = "ANSIX923" -> IF k = paddingLength THEN paddingLength ELSE 0
    [] padding = "PKCS7" -> paddingLength
    [] padding = "ISO10126" -> IF k = paddingLength THEN paddingLength ELSE rnd[k]

addPadding(c, data, rnd) ==
  IF c.padding \notin CipherPadding THEN Throw(c, "UnsupportedPadding")
  ELSE Return(c, Some(data \o [k \in 1..paddingLengthOf(data) |->
                                 padByte(c.padding, k, paddingLengthOf(data), rnd)]))

(* data[data.length - 1]: a byte, or undefined (null here) on an empty array *)
lastByte(data) == IF Len(data) = 0 THEN Null ELSE Some(data[Len(data)])

(* the number of trailing 0 bytes of the first i bytes of data *)
RECURSIVE trailingZeros(_, _)
trailingZeros(data, i) ==
  IF i >= 1 /\ data[i] = 0 THEN 1 + trailingZeros(data, i - 1) ELSE 0

(* the length test and data.slice(0, data.length - paddingLength); with an  *)
(* undefined paddingLength the test is false and the slice is empty         *)
sliceOffPadding(c, data, paddingLength) ==
  IF IsNull(paddingLength) THEN Return(c, Some(SubSeq(data, 1, 0)))
  ELSE IF Len(data) < Val(paddingLength) THEN Throw(c, "PaddingValidationFailed")
  ELSE Return(c, Some(SubSeq(data, 1, Len(data) - Val(paddingLength))))

(* paddingLength > blockSize || paddingLength === 0, false for undefined *)
badPaddingLength(paddingLength) ==
  /\ ~IsNull(paddingLength)
  /\ (Val(paddingLength) > getBlockSizeBytes \/ Val(paddingLength) = 0)

removeANSIX923(c, data, paddingLength) ==
  IF badPaddingLength(paddingLength) THEN Throw(c, "PaddingValidationFailed")
  ELSE IF ~IsNull(paddingLength)
          /\ \E j \in 1..(Val(paddingLength) - 1) : data[Len(data) - j] # 0
  THEN Throw(c, "PaddingValidationFailed")
  ELSE sliceOffPadding(c, data, paddingLength)

(* removePKCS7 without the comparison of every padding byte *)
removePKCS7LengthOnly(c, data, paddingLength) ==
  IF badPaddingLength(paddingLength) THEN Throw(c, "PaddingValidationFailed")
  ELSE sliceOffPadding(c, data, paddingLength)

removePKCS7(c, data, paddingLength) ==
  IF badPaddingLength(paddingLength) THEN Throw(c, "PaddingValidationFailed")
  ELSE IF ~IsNull(paddingLength)
          /\ \E j \in 1..Val(paddingLength) :
               data[Len(data) - j + 1] # Val(paddingLength)
  THEN Throw(c, "PaddingValidationFailed")
  ELSE sliceOffPadding(c, data, paddingLength)

removeISO10126(c, data, paddingLength) ==
  IF badPaddingLength(paddingLength) THEN Throw(c, "PaddingValidationFailed")
  ELSE sliceOffPadding(c, data, paddingLength)

(* removeZeros whose loop stops before the first byte of the buffer *)
removeZerosAfterFirst(c, data) ==
  sliceOffPadding(c, data,
    Some(IF Len(data) > 0 /\ trailingZeros(data, Len(data)) = Len(data)
         THEN Len(data) - 1 ELSE trailingZeros(data, Len(data))))

(* case Zeros: every trailing 0 byte counts as padding *)
removeZeros(c, data) ==
  sliceOffPadding(c, data, Some(trailingZeros(data, Len(data))))

removePadding(c, data) ==
  IF Len(data) % getBlockSizeBytes # 0 THEN Throw(c, "MisalignedCiphertext")
  ELSE CASE c.padding = "Zeros" -> removeZeros(c, data)
         [] c.padding = "ANSIX923" -> removeANSIX923(c, data, lastByte(data))
         [] c.padding = "PKCS7" -> removePKCS7(c, data, lastByte(data))
         [] c.padding = "ISO10126" -> removeISO10126(c, data, lastByte(data))
         [] OTHER -> Throw(c, "UnsupportedPadding")

(* the longest message padded: two blocks *)
MaxDataLen == 2 * BLOCK_SIZE_BYTES

(* a message that ends in two 0x00 bytes after other content *)
EndsInZeros(len) == [j \in 1..len |-> IF j > len - 2 THEN 0 ELSE (29 * j + 157) % 256]

(* messages _addPadding is called with: every length 0..2*blockSize, with  *)
(* all-zero, all-0xFF and pseudo-random contents, and ones ending in zeros  *)
PadInputs ==
  {SampleBytes(i, len) : i \in 0..(NBlocks - 1), len \in 0..MaxDataLen}
    \cup {EndsInZeros(len) : len \in 2..MaxDataLen}

(* what Math.random() fills an ISO10126 padding with *)
RandomFills == {SampleBytes(i, BLOCK_SIZE_BYTES - 1) : i \in 1..2}

(* final bytes and filler bytes of the buffers _removePadding is called with *)
PadBytes == {0, 1, 2, BLOCK_SIZE_BYTES, BLOCK_SIZE_BYTES + 1, 255}

(* a buffer of len bytes f that ends in the byte p *)
EndsIn(len, f, p) == [j \in 1..len |-> IF j = len THEN p ELSE f]

(* len bytes p, but for the byte p positions from the end *)
DeepFlaw(len, p) == [j \in 1..len |-> IF j = len - p + 1 THEN p + 1 ELSE p]

(* buffers _removePadding is called with: well-formed and tampered paddings *)
(* of one and two blocks, an empty buffer, half a block                     *)
RemoveInputs ==
  {EndsIn(len, f, p) :
     len \in {BLOCK_SIZE_BYTES, MaxDataLen}, f \in PadBytes, p \in PadBytes}
    \cup {DeepFlaw(len, p) :
            len \in {BLOCK_SIZE_BYTES, MaxDataLen}, p \in {2, BLOCK_SIZE_BYTES}}
    \cup {SampleBytes(0, 0), SampleBytes(2, HALF_BLOCK_SIZE_BYTES),
          SampleBytes(2, BLOCK_SIZE_BYTES)}

---------------------------------------------------------------------------
(* the MacGuffin-style cipher: F function, block engine, key schedule *)

KSIZE == 96

MACGUFFIN_NUM_ROUNDS == 32

(* the bits of a, b and c that select the table entry of each output slice *)
LOOKUP_MASKS ==
  << <<54, 1728, 26880>>, <<20552, 8454, 33809>>,
     <<34305, 18472, 4292>>, <<10624, 36881, 554>> >>

(* the bits each slice contributes to the result *)
OUTPUT_MASKS == <<15, 240, 13056, 52224>>

S_BOX == "S_BOX"

(* stable[index] of a Uint16Array whose entry i is (i * mult + add) mod 2^16: *)
(* beyond its length the read is undefined, which & turns into 0             *)
stableAt(stable, index) ==
  IF index < stable.len THEN (index * stable.mult + stable.add) % W16 ELSE 0

(* one pass of the loop of f_optimized *)
fSlice(j, a, b, c, stable) ==
  And16(At(OUTPUT_MASKS, j),
        stableAt(stable,
                 Or16(Or16(And16(a, LOOKUP_MASKS[j + 1][1]), And16(b, LOOKUP_MASKS[j + 1][2])),
                      And16(c, LOOKUP_MASKS[j + 1][3]))))

f_optimized(a, b, c, stable) ==
  Or16(Or16(Or16(fSlice(0, a, b, c, stable), fSlice(1, a, b, c, stable)),
            fSlice(2, a, b, c, stable)),
       fSlice(3, a, b, c, stable))

(* new FeistelBlockCipher(stable, numRounds) of the MacGuffin-style cipher *)
NewMacGuffinEngine(stable, numRounds) == [stable_ |-> stable, numRounds_ |-> numRounds]

(* the registers r0..r3: blk[2n] | (blk[2n + 1] << 8) *)
registersOf(blk) == [n \in 1..4 |-> byteOr0(blk, 2 * n - 2) + 256 * byteOr0(blk, 2 * n - 1)]

(* the output block: output[2n] = rn, output[2n + 1] = rn >> 8 *)
bytesOfRegisters(r) ==
  [n \in 1..MACGUFFIN_BLOCK_SIZE_BYTES |->
     IF n % 2 = 1 THEN r[(n + 1) \div 2] % 256 ELSE (r[n \div 2] \div 256) % 256]

(* sub-round s + 1 of group i: a, b, c are the three registers after rs, each *)
(* XORed with its key word ek[12 i + 3 s ..]; rs ^= F(a, b, c)                *)
subRound(r, ek, i, s, engine) ==
  [r EXCEPT ![s + 1] =
     Xor16(@, f_optimized(Xor16(r[((s + 1) % 4) + 1], At(ek, i * 12 + 3 * s)),
                          Xor16(r[((s + 2) % 4) + 1], At(ek, i * 12 + 3 * s + 1)),
                          Xor16(r[((s + 3) % 4) + 1], At(ek, i * 12 + 3 * s + 2)),
                          engine.stable_))]

RECURSIVE macGuffinEncryptGroups(_, _, _, _)
macGuffinEncryptGroups(r, ek, i, engine) ==
  IF i >= MACGUFFIN_NUM_ROUNDS \div 4 \/ Len(r) # 4 THEN r
  ELSE macGuffinEncryptGroups(
         subRound(subRound(subRound(subRound(r, ek, i, 0, engine), ek, i, 1, engine),
                           ek, i, 2, engine), ek, i, 3, engine),
         ek, i + 1, engine)

(* the groups taken from the last to the first, the four sub-rounds of each *)
(* group in the order of encryption                                         *)
RECURSIVE macGuffinDecryptGroupsForward(_, _, _, _)
macGuffinDecryptGroupsForward(r, ek, i, engine) ==
  IF i < 0 \/ Len(r) # 4 THEN r
  ELSE macGuffinDecryptGroupsForward(
         subRound(subRound(subRound(subRound(r, ek, i, 0, engine), ek, i, 1, engine),
                           ek, i, 2, engine), ek, i, 3, engine),
         ek, i - 1, engine)

RECURSIVE macGuffinDecryptGroups(_, _, _, _)
macGuffinDecryptGroups(r, ek, i, engine) ==
  IF i < 0 \/ Len(r) # 4 THEN r
  ELSE macGuffinDecryptGroups(
         subRound(subRound(subRound(subRound(r, ek, i, 3, engine), ek, i, 2, engine),
                           ek, i, 1, engine), ek, i, 0, engine),
         ek, i - 1, engine)

(* FeistelBlockCipher.encryptBlock of the MacGuffin-style cipher; key.val is *)
(* copied, the copy is only read                                             *)
macGuffinEncryptBlock(engine, blk, key) ==
  bytesOfRegisters(macGuffinEncryptGroups(registersOf(blk), key.val, 0, engine))

macGuffinDecryptBlock(engine, blk, key) ==
  bytesOfRegisters(
    macGuffinDecryptGroups(registersOf(blk), key.val, (MACGUFFIN_NUM_ROUNDS \div 4) - 1, engine))

(* new Uint16Array(KSIZE) *)
ZeroKey == [val |-> [n \in 1..KSIZE |-> 0]]

(* ek.val[3j .. 3j + 2] ^= the first three little-endian words of k *)
mixedIn(ek, j, k) ==
  [val |-> [ek.val EXCEPT ![j * 3 + 1] = Xor16(@, At(k, 0) + 256 * At(k, 1)),
                          ![j * 3 + 2] = Xor16(@, At(k, 2) + 256 * At(k, 3)),
                          ![j * 3 + 3] = Xor16(@, At(k, 4) + 256 * At(k, 5))]]

(* the inner loop of generateRoundKeys from iteration j on, for one half k *)
RECURSIVE bootstrapHalf(_, _, _, _)
bootstrapFrom(k, ek, j, extra) == bootstrapHalf(k, mixedIn(ek, j, k), j + 1, extra)

bootstrapHalf(k, ek, j, extra) ==
  IF j >= 32 \/ Len(ek.val) # KSIZE THEN ek
  ELSE bootstrapFrom(macGuffinEncryptBlock(extra.blockCipher, k, ek), ek, j, extra)

(* masterKey.subarray(begin, end) *)
subarray(a, begin, end) ==
  SubSeq(a, begin + 1, IF end < Len(a) THEN end ELSE Len(a))

(* generateRoundKeys with ek as its working table *)
bootstrap(ek, masterKey, extra) ==
  bootstrapHalf(subarray(masterKey, 8, 16),
                bootstrapHalf(subarray(masterKey, 0, 8), ek, 0, extra),
                0, extra)

(* generateRoundKeys with the table of the schedule it is called on as its  *)
(* working table when there is one                                          *)
generateRoundKeysOnOldTable(this, masterKey, extra) ==
  [this EXCEPT !.roundKeys_ =
     Some(bootstrap(IF IsNull(this.roundKeys_) THEN ZeroKey ELSE Val(this.roundKeys_),
                    masterKey, extra))]

(* KeyExpansion.generateRoundKeys of the MacGuffin-style cipher, on schedule this *)
generateRoundKeys(this, masterKey, extra) ==
  [this EXCEPT !.roundKeys_ = Some(bootstrap(ZeroKey, masterKey, extra))]

(* new KeyExpansion(masterKey, extra) of the MacGuffin-style cipher *)
MacGuffinKeyExpansion(masterKey, extra) ==
  generateRoundKeys([roundKeys_ |-> Null, sBoxes_ |-> S_BOX], masterKey, extra)

---------------------------------------------------------------------------
(* the session driven one call at a time by its caller *)

NoCall == [op |-> "none", arg |-> Null, pre |-> NewCipherContext, res |-> Ok(Null)]

Idle == last.op = "none"

NoTrip == [pc |-> "off"]

(* no object of the MacGuffin-style cipher has been constructed *)
NoMacGuffin == [op |-> "off"]

(* no second session has been constructed *)
NoSessions == [op |-> "off"]

Init ==
  /\ ctx = NewCipherContext
  /\ last = NoCall
  /\ tc = NoTrip
  /\ mg = NoMacGuffin
  /\ sessions = NoSessions

(* a call ran: the session is as the call left it, the caller holds its outcome *)
Called(op, arg, out) ==
  /\ ctx' = out.ctx
  /\ last' = [op |-> op, arg |-> arg, pre |-> ctx, res |-> out.res]
  /\ UNCHANGED <<tc, mg, sessions>>

CallSetMasterKey ==
  /\ Idle
  /\ \E masterKey \in KeyInputs :
       Called("setMasterKey", masterKey, setMasterKey(ctx, masterKey))

CallSetMode ==
  /\ Idle
  /\ \E mode \in ModeInputs : Called("setMode", mode, setMode(ctx, mode))

CallSetPadding ==
  /\ Idle
  /\ \E padding \in CipherPadding :
       Called("setPadding", padding, setPadding(ctx, padding))

CallSetIv ==
  /\ Idle
  /\ \E iv \in IvInputs : Called("setIv", iv, setIv(ctx, iv))

CallEncrypt ==
  /\ Idle
  /\ \E currentBlock \in SampleBlocks \cup OddInputs :
       Called("encrypt", currentBlock, encrypt(ctx, currentBlock))

CallDecrypt ==
  /\ Idle
  /\ \E currentBlock \in SampleBlocks \cup OddInputs :
       Called("decrypt", currentBlock, decrypt(ctx, currentBlock))

CallAddPadding ==
  /\ Idle
  /\ \E data \in PadInputs, rnd \in RandomFills :
       Called("_addPadding", data, addPadding(ctx, data, rnd))

CallRemovePadding ==
  /\ Idle
  /\ \E data \in RemoveInputs :
       Called("_removePadding", data, removePadding(ctx, data))

CallEncryptFile ==
  /\ Idle
  /\ \E inputFile \in FileInputs :
       Called("encryptFile", inputFile, encryptFile(ctx, inputFile))

CallDecryptFile ==
  /\ Idle
  /\ \E inputFile \in FileInputs :
       Called("decryptFile", inputFile, decryptFile(ctx, inputFile))

(* the caller has taken the outcome (or caught the error) and is ready to call again *)
Resume ==
  /\ ~Idle
  /\ last' = NoCall
  /\ UNCHANGED <<ctx, tc, mg, sessions>>

Next ==
  \/ CallSetMasterKey
  \/ CallSetMode
  \/ CallSetPadding
  \/ CallSetIv
  \/ CallEncrypt
  \/ CallDecrypt
  \/ CallAddPadding
  \/ CallRemovePadding
  \/ CallEncryptFile
  \/ CallDecryptFile
  \/ Resume

Spec == Init /\ [][Next]_vars

---------------------------------------------------------------------------
(* key schedules derived one after the other, with block operations in      *)
(* between: a run works either on a session of the Twofish-style cipher or  *)
(* on an engine and a schedule object of the MacGuffin-style cipher, which  *)
(* share no object with each other                                          *)

(* contents of the substitution table the engine is constructed with *)
Stables ==
  {[len |-> W16, mult |-> 25173, add |-> 13849], [len |-> W16 \div 2, mult |-> 517, add |-> 1]}

MacGuffinKeys == {SampleKey(v, 2 * MACGUFFIN_BLOCK_SIZE_BYTES) : v \in {0, 1}}

MacGuffinBlocks == {SampleBytes(i, MACGUFFIN_BLOCK_SIZE_BYTES) : i \in {1, 2}}

InitSchedules ==
  /\ sessions = NoSessions
  /\ ctx = NewCipherContext
  /\ last = NoCall
  /\ tc = NoTrip
  /\ \/ mg = NoMacGuffin
     \/ \E stable \in Stables :
          mg = [op |-> "new FeistelBlockCipher", arg |-> stable, res |-> Null,
                blockCipher |-> NewMacGuffinEngine(stable, MACGUFFIN_NUM_ROUNDS),
                keyExpansion |-> Null, pre |-> Null]

OnSession == mg = NoMacGuffin

OnMacGuffin == mg # NoMacGuffin

SchedulesSetMasterKey == OnSession /\ CallSetMasterKey

SchedulesEncrypt == OnSession /\ CallEncrypt

SchedulesDecrypt == OnSession /\ CallDecrypt

SchedulesResume == OnSession /\ Resume

(* an operation on the MacGuffin objects ran: ks is the schedule object now held *)
MacGuffinCalled(op, arg, ks, res) ==
  /\ mg' = [mg EXCEPT !.op = op, !.arg = arg, !.res = res, !.keyExpansion = Some(ks),
                      !.pre = mg.keyExpansion]
  /\ UNCHANGED <<ctx, last, tc, sessions>>

MacGuffinNewKeyExpansion ==
  /\ OnMacGuffin
  /\ \E masterKey \in MacGuffinKeys :
       MacGuffinCalled("new KeyExpansion", masterKey,
                       MacGuffinKeyExpansion(masterKey, [blockCipher |-> mg.blockCipher]),
                       Null)

MacGuffinGenerateRoundKeys ==
  /\ OnMacGuffin
  /\ ~IsNull(mg.keyExpansion)
  /\ \E masterKey \in MacGuffinKeys :
       MacGuffinCalled("generateRoundKeys", masterKey,
                       generateRoundKeys(Val(mg.keyExpansion), masterKey,
                                         [blockCipher |-> mg.blockCipher]),
                       Null)

MacGuffinEncryptBlock ==
  /\ OnMacGuffin
  /\ ~IsNull(mg.keyExpansion)
  /\ \E blk \in MacGuffinBlocks :
       MacGuffinCalled("encryptBlock", blk, Val(mg.keyExpansion),
                       Some(macGuffinEncryptBlock(mg.blockCipher, blk,
                                                  Val(Val(mg.keyExpansion).roundKeys_))))

MacGuffinDecryptBlock ==
  /\ OnMacGuffin
  /\ ~IsNull(mg.keyExpansion)
  /\ \E blk \in MacGuffinBlocks :
       MacGuffinCalled("decryptBlock", blk, Val(mg.keyExpansion),
                       Some(macGuffinDecryptBlock(mg.blockCipher, blk,
                                                  Val(Val(mg.keyExpansion).roundKeys_))))

NextSchedules ==
  \/ SchedulesSetMasterKey
  \/ SchedulesEncrypt
  \/ SchedulesDecrypt
  \/ SchedulesResume
  \/ MacGuffinNewKeyExpansion
  \/ MacGuffinGenerateRoundKeys
  \/ MacGuffinEncryptBlock
  \/ MacGuffinDecryptBlock

SpecSchedules == InitSchedules /\ [][NextSchedules]_vars

---------------------------------------------------------------------------
(* the functions of tools.ts and the block engine called on their own *)

(* 32-bit words as h and gFunction return them: int32 values, top bit set or not *)
WordInputs ==
  {0, 1, -1, 2147483647, -2147483647 - 1, 19088743, -19088744} \cup
  {h(NumOf(x), keyM(k)) : x \in {0, 1}, k \in ValidKeys}

(* a schedule object that was not derived from a key: 40 words, four 256-entry tables *)
OtherSchedule ==
  [roundKeys |-> Some([n \in 1..40 |-> <<(n * 1021) % W16, (n * n * 311) % W16>>]),
   sBoxes    |-> Some([i \in 1..4 |-> [j \in 1..256 |-> ((j * 7919 + i * 104729) % W16) * (i + 250) - 8000000]])]

Schedules == {KeyExpansionMemo[k] : k \in ValidKeys} \cup {OtherSchedule}

(* a function ran: the caller holds what it returned or threw *)
Applied(op, arg, res) ==
  /\ last' = [op |-> op, arg |-> arg, pre |-> ctx, res |-> res]
  /\ UNCHANGED <<ctx, tc, mg, sessions>>

ToolsMultiplyGF ==
  /\ Idle
  /\ \E a \in 0..255, b \in 0..255 : Applied("multiplyGF", <<a, b>>, Ok(multiplyGF(a, b)))

ToolsPHT ==
  /\ Idle
  /\ \E a \in WordInputs, b \in WordInputs :
       Applied("PHT", <<a, b>>, Ok(PHT(NumOf(a), NumOf(b))))

ToolsEncryptBlock ==
  /\ Idle
  /\ \E blk \in SampleBlocks \cup OddInputs, ke \in Schedules :
       Applied("encryptBlock", [blk |-> blk, ke |-> ke],
               encryptBlock(blk, Val(ke.roundKeys), ke))

ToolsDecryptBlock ==
  /\ Idle
  /\ \E blk \in SampleBlocks \cup OddInputs, ke \in Schedules :
       Applied("decryptBlock", [blk |-> blk, ke |-> ke],
               decryptBlock(blk, Val(ke.roundKeys), ke))

NextTools ==
  \/ ToolsMultiplyGF
  \/ ToolsPHT
  \/ ToolsEncryptBlock
  \/ ToolsDecryptBlock
  \/ Resume

SpecTools == Init /\ [][NextTools]_vars

---------------------------------------------------------------------------
(* two sessions of one program, called in any order *)

SessionIds == {1, 2}

SessionKeys == {Some(SampleKey(0, 16)), Some(SampleKey(0, 8))}

SessionModes == {"ECB", "CBC", "OFB"}

SessionIvs == {Null, Some(SampleBytes(4, 8)), Some(SampleBytes(5, 8)), Some(SampleBytes(6, 16))}

SessionBlocks == {SampleBytes(0, BLOCK_SIZE_BYTES), <<>>}

(* a call on one object writes that object's fields and every other object's too *)
fieldsOfEveryObject(objs, who, out) ==
  [i \in SessionIds |-> IF i = who THEN out.ctx ELSE [objs[i] EXCEPT !.iv = out.ctx.iv]]

(* the fields of CipherContextBase are fields of the object: a call on one *)
(* object writes the fields of that object                                 *)
fieldsOfThis(objs, who, out) ==
  [objs EXCEPT ![who] = out.ctx]

(* new CipherContext() twice; alone[i] is object i of a program that makes *)
(* only the calls made on object i                                         *)
InitSessions ==
  /\ ctx = NewCipherContext
  /\ last = NoCall
  /\ tc = NoTrip
  /\ mg = NoMacGuffin
  /\ sessions = [op |-> "new CipherContext", who |-> 1, arg |-> Null,
                 pre |-> [i \in SessionIds |-> NewCipherContext],
                 objs |-> [i \in SessionIds |-> NewCipherContext],
                 alone |-> [i \in SessionIds |-> NewCipherContext],
                 res |-> Ok(Null), resAlone |-> Ok(Null)]

SessionsCalled(who, op, arg, out, outAlone) ==
  /\ sessions' = [op |-> op, who |-> who, arg |-> arg,
                  pre |-> sessions.objs,
                  objs |-> fieldsOfThis(sessions.objs, who, out),
                  alone |-> [sessions.alone EXCEPT ![who] = outAlone.ctx],
                  res |-> out.res, resAlone |-> outAlone.res]
  /\ UNCHANGED <<ctx, last, tc, mg>>

SessionsSetMasterKey ==
  \E who \in SessionIds, masterKey \in SessionKeys :
    SessionsCalled(who, "setMasterKey", masterKey,
                   setMasterKey(sessions.objs[who], masterKey),
                   setMasterKey(sessions.alone[who], masterKey))

SessionsSetMode ==
  \E who \in SessionIds, mode \in SessionModes :
    SessionsCalled(who, "setMode", mode,
                   setMode(sessions.objs[who], mode),
                   setMode(sessions.alone[who], mode))

SessionsSetIv ==
  \E who \in SessionIds, iv \in SessionIvs :
    SessionsCalled(who, "setIv", iv,
                   setIv(sessions.objs[who], iv),
                   setIv(sessions.alone[who], iv))

SessionsEncrypt ==
  \E who \in SessionIds, currentBlock \in SessionBlocks :
    SessionsCalled(who, "encrypt", currentBlock,
                   encrypt(sessions.objs[who], currentBlock),
                   encrypt(sessions.alone[who], currentBlock))

SessionsDecrypt ==
  \E who \in SessionIds, currentBlock \in SessionBlocks :
    SessionsCalled(who, "decrypt", currentBlock,
                   decrypt(sessions.objs[who], currentBlock),
                   decrypt(sessions.alone[who], currentBlock))

NextSessions ==
  \/ SessionsSetMasterKey
  \/ SessionsSetMode
  \/ SessionsSetIv
  \/ SessionsEncrypt
  \/ SessionsDecrypt

SpecSessions == InitSessions /\ [][NextSessions]_vars

---------------------------------------------------------------------------
(* one session taken through bind key, set mode, set IV, encrypt the blocks *)
(* of a message one after the other, set the IV again, decrypt the          *)
(* ciphertext blocks in order, the first of them possibly with bits flipped *)
(* on the way; a call that throws is caught and recorded,                   *)
(* and the next call is made                                                *)

NTripBlocks == 3

NotRun == Err("NotRun")

TripModes == {"ECB", "CBC", "PCBC", "CFB", "OFB", "CTR"}

BlockSizedIvs == {Some(b) : b \in SampleBlocks}

TripIvs == BlockSizedIvs \cup {Null, Some(SampleBytes(4, MACGUFFIN_BLOCK_SIZE_BYTES))}

TripMessages == [1..NTripBlocks -> SampleBlocks]

(* the bits flipped in the first ciphertext block before it is decrypted: *)
(* none, or bits of its first, second and last byte                       *)
NoFlip == [j \in 1..BLOCK_SIZE_BYTES |-> 0]

SomeFlip ==
  [j \in 1..BLOCK_SIZE_BYTES |->
     IF j = 1 THEN 1 ELSE IF j = 2 THEN 129 ELSE IF j = BLOCK_SIZE_BYTES THEN 64 ELSE 0]

TripFlips == {NoFlip, SomeFlip}

InitTrip ==
  /\ sessions = NoSessions
  /\ ctx = NewCipherContext
  /\ last = NoCall
  /\ mg = NoMacGuffin
  /\ \E key \in ValidKeys, mode \in TripModes, iv \in TripIvs, m \in TripMessages,
        flip \in TripFlips :
       tc = [pc |-> "setMasterKey", n |-> 1, key |-> key, mode |-> mode, iv |-> iv,
             m |-> m, flip |-> flip, rKey |-> NotRun, rMode |-> NotRun, rIv |-> NotRun,
             e |-> [i \in 1..NTripBlocks |-> NotRun], rReset |-> NotRun,
             d |-> [i \in 1..NTripBlocks |-> NotRun]]

(* a step of the run: the session is as the call left it, its outcome is recorded *)
TripStep(out, next) ==
  /\ ctx' = out.ctx
  /\ tc' = next
  /\ UNCHANGED <<last, mg, sessions>>

TripSetMasterKey ==
  /\ tc.pc = "setMasterKey"
  /\ TripStep(setMasterKey(ctx, Some(tc.key)),
              [tc EXCEPT !.pc = "setMode", !.rKey = setMasterKey(ctx, Some(tc.key)).res])

TripSetMode ==
  /\ tc.pc = "setMode"
  /\ TripStep(setMode(ctx, tc.mode),
              [tc EXCEPT !.pc = "setIv", !.rMode = setMode(ctx, tc.mode).res])

TripSetIv ==
  /\ tc.pc = "setIv"
  /\ TripStep(setIv(ctx, tc.iv),
              [tc EXCEPT !.pc = "encrypt", !.n = 1, !.rIv = setIv(ctx, tc.iv).res])

(* the outcome out of block n recorded in field f; after the last block go to pc next *)
Recorded(t, out, isEncrypt, next) ==
  [t EXCEPT !.pc = IF t.n = NTripBlocks THEN next ELSE t.pc,
            !.n = IF t.n = NTripBlocks THEN 1 ELSE t.n + 1,
            !.e = IF isEncrypt THEN [t.e EXCEPT ![t.n] = out.res] ELSE t.e,
            !.d = IF isEncrypt THEN t.d ELSE [t.d EXCEPT ![t.n] = out.res]]

TripCalled(out, isEncrypt, next) == TripStep(out, Recorded(tc, out, isEncrypt, next))

TripEncrypt ==
  /\ tc.pc = "encrypt"
  /\ TripCalled(encrypt(ctx, tc.m[tc.n]), TRUE, "resetIv")

(* there are ciphertext blocks to decrypt only if every encrypt call returned one *)
HasCiphertext(t) == \A i \in 1..NTripBlocks : t.e[i].ok /\ ~IsNull(t.e[i].val)

TripResetIv ==
  /\ tc.pc = "resetIv"
  /\ TripStep(setIv(ctx, tc.iv),
              [tc EXCEPT !.pc = IF HasCiphertext(tc) THEN "decrypt" ELSE "done",
                         !.rReset = setIv(ctx, tc.iv).res])

(* the n-th ciphertext block as it reaches decrypt *)
Received(t, n) ==
  IF n = 1 THEN xorBytes(Val(t.e[1].val), t.flip).val ELSE Val(t.e[n].val)

TripDecrypt ==
  /\ tc.pc = "decrypt"
  /\ TripCalled(decrypt(ctx, Received(tc, tc.n)), FALSE, "done")

NextTrip ==
  \/ TripSetMasterKey
  \/ TripSetMode
  \/ TripSetIv
  \/ TripEncrypt
  \/ TripResetIv
  \/ TripDecrypt

SpecTrip == InitTrip /\ [][NextTrip]_vars

---------------------------------------------------------------------------
(* vocabulary of the properties *)

KeyBound(c) == ~IsNull(c.keyExpansion.roundKeys)

IsBlock(b) == Len(b) = getBlockSizeBytes

IsBlockOp == last.op \in {"encrypt", "decrypt"}

(* the call the caller holds the outcome of was made with a key bound, the *)
(* given mode, an IV set, and one block as its argument                    *)
ChainedCall(op, mode) ==
  /\ last.op = op
  /\ last.pre.mode = mode
  /\ KeyBound(last.pre)
  /\ ~IsNull(last.pre.iv)
  /\ IsBlock(last.arg)

(* E(x) and D(x): the block engine under the schedule of session c *)
EngineE(c, x) == encryptBlock(x, roundKeysOf(c), c.keyExpansion).val

EngineD(c, x) == decryptBlock(x, roundKeysOf(c), c.keyExpansion).val

(* a XOR b, defined when the lengths agree *)
Xor(a, b) == xorBytes(a, b).val

(* every call of the run returned without an error *)
TripAllOk ==
  /\ tc.rKey.ok /\ tc.rMode.ok /\ tc.rIv.ok /\ tc.rReset.ok
  /\ \A i \in 1..NTripBlocks : tc.e[i].ok /\ tc.d[i].ok

TripPlaintextBack == \A i \in 1..NTripBlocks : tc.d[i].val = Some(tc.m[i])

---------------------------------------------------------------------------
(* C1: in ECB mode, for every key of 16, 24 or 32 bytes and every 16-byte   *)
(* block b, decrypt(encrypt(b)) raises no error and returns b.              *)
(* Refuted: decrypt reads this.blockCipher.getBlockSizeBytes(), which the   *)
(* engine instance only inherits from IBlockCipher, where it throws.        *)
EcbRoundTrip ==
  (tc.pc = "done" /\ tc.mode = "ECB" /\ tc.flip = NoFlip) =>
    /\ \A i \in 1..NTripBlocks : tc.e[i].ok /\ tc.d[i].ok
    /\ TripPlaintextBack

(* C2: in CBC, PCBC, CFB and OFB, with a block-sized IV: setIv(iv), an       *)
(* encrypt call per block of the message, setIv(iv) again, a decrypt call   *)
(* per ciphertext block give back the plaintext blocks in order, the first  *)
(* two among them.                                                          *)
(* Refuted: setIv rejects a 16-byte IV, so no chained call has an IV.       *)
ChainedRoundTrip ==
  (tc.pc = "done" /\ tc.mode \in {"CBC", "PCBC", "CFB", "OFB"}
     /\ tc.iv \in BlockSizedIvs /\ tc.flip = NoFlip) =>
    /\ TripAllOk
    /\ TripPlaintextBack

(* C3: in CBC mode with an IV set, encrypt(b) returns c = E(b XOR IV) and   *)
(* leaves the chaining state c; decrypt(c) returns D(c) XOR IV and leaves   *)
(* the chaining state c.                                                    *)
(* Refuted: the only IV setIv accepts is 8 bytes long, so the XOR with a    *)
(* 16-byte block throws; decrypt throws before it reaches the mode.         *)
CbcRule ==
  /\ ChainedCall("encrypt", "CBC") =>
       /\ last.res.ok
       /\ last.res.val = Some(EngineE(last.pre, Xor(last.arg, Val(last.pre.iv))))
       /\ ctx.iv = last.res.val
  /\ ChainedCall("decrypt", "CBC") =>
       /\ last.res.ok
       /\ last.res.val = Some(Xor(EngineD(last.pre, last.arg), Val(last.pre.iv)))
       /\ ctx.iv = Some(last.arg)

(* C4: in PCBC mode with an IV set, encrypt(p) returns c = E(p XOR IV),     *)
(* decrypt(c) returns p = D(c) XOR IV, and after either call the chaining   *)
(* state is p XOR c.                                                        *)
(* Refuted as C3 is.                                                        *)
PcbcRule ==
  /\ ChainedCall("encrypt", "PCBC") =>
       /\ last.res.ok
       /\ last.res.val = Some(EngineE(last.pre, Xor(last.arg, Val(last.pre.iv))))
       /\ ctx.iv = Some(Xor(last.arg, Val(last.res.val)))
  /\ ChainedCall("decrypt", "PCBC") =>
       /\ last.res.ok
       /\ last.res.val = Some(Xor(EngineD(last.pre, last.arg), Val(last.pre.iv)))
       /\ ctx.iv = Some(Xor(Val(last.res.val), last.arg))

(* C5: in CFB mode with an IV set, encrypt(b) returns c = b XOR E(IV) and   *)
(* leaves the chaining state c; decrypt(c) returns c XOR E(IV) and leaves   *)
(* the chaining state c.                                                    *)
(* Refuted: encrypt computes c and then throws in setIv(c), c being 16      *)
(* bytes long; decrypt throws before it reaches the mode.                   *)
CfbRule ==
  /\ ChainedCall("encrypt", "CFB") =>
       /\ last.res.ok
       /\ last.res.val = Some(Xor(last.arg, EngineE(last.pre, Val(last.pre.iv))))
       /\ ctx.iv = last.res.val
  /\ ChainedCall("decrypt", "CFB") =>
       /\ last.res.ok
       /\ last.res.val = Some(Xor(last.arg, EngineE(last.pre, Val(last.pre.iv))))
       /\ ctx.iv = Some(last.arg)

(* C6: in OFB mode with an IV set, a block operation replaces the chaining  *)
(* state by E(IV) and returns block XOR E(IV); decrypt returns the same     *)
(* block and leaves the same chaining state as encrypt does from the same   *)
(* session state.                                                           *)
(* Refuted: setIv(E(IV)) throws, E(IV) being 16 bytes long, and decrypt     *)
(* throws another error than encrypt, before it reaches the mode.           *)
OfbRule ==
  (IsBlockOp /\ ChainedCall(last.op, "OFB")) =>
    /\ last.res.ok
    /\ ctx.iv = Some(EngineE(last.pre, Val(last.pre.iv)))
    /\ last.res.val = Some(Xor(last.arg, Val(ctx.iv)))
    /\ decrypt(last.pre, last.arg) = encrypt(last.pre, last.arg)

(* the counter block: bytes taken as one big-endian number, n added with carry *)
RECURSIVE CounterPlus(_, _, _)
CounterPlus(bytes, k, n) ==
  IF k = 0 THEN bytes
  ELSE CounterPlus([bytes EXCEPT ![k] = (bytes[k] + n) % 256], k - 1,
                   (bytes[k] + n) \div 256)

(* C7: in CTR mode the i-th block operation after setIv(iv) uses the        *)
(* counter block iv + (i - 1), carry propagating across all its bytes, and  *)
(* returns block XOR E(counter); the counter depends on the IV and on the   *)
(* number of blocks processed only.                                         *)
(* Refuted: the branch throws at this.blockCipher.getBlockSizeBytes(), and  *)
(* what follows it takes the carry from the first four bytes of the data.   *)
CtrCounterRule ==
  (tc.pc = "done" /\ tc.mode = "CTR" /\ ~IsNull(tc.iv)) =>
    \A i \in 1..NTripBlocks :
      /\ tc.e[i].ok
      /\ tc.e[i].val =
           Some(Xor(tc.m[i],
                    EngineE(ctx, CounterPlus(Val(tc.iv), Len(Val(tc.iv)), i - 1))))

(* the IVs a session can be thought to hold when a block operation starts *)
HeldIvs == {Null, Some(SampleBytes(4, 8)), Some(SampleBytes(6, 16))}

(* the operation of the call the caller holds the outcome of, on session c *)
SameCall(c) ==
  IF last.op = "encrypt" THEN encrypt(c, last.arg) ELSE decrypt(c, last.arg)

(* C8: in ECB mode encrypt and decrypt never ask for an IV, their outcome   *)
(* (the block returned, or the error raised) is the one they have with any  *)
(* other IV or with none, and they leave the chaining state as it was.      *)
EcbIgnoresIv ==
  (IsBlockOp /\ last.pre.mode = "ECB") =>
    /\ last.res.err # "MissingIv"
    /\ ctx.iv = last.pre.iv
    /\ \A iv \in HeldIvs : SameCall([last.pre EXCEPT !.iv = iv]).res = last.res

(* C8 happens: an ECB encrypt returned a block on a session that holds an IV *)
EcbIgnoresIvWitness ==
  /\ last.op = "encrypt"
  /\ last.pre.mode = "ECB"
  /\ ~IsNull(last.pre.iv)
  /\ last.res.ok
  /\ IsBlock(Val(last.res.val))

ChainedOrCounter == {"CBC", "PCBC", "CFB", "OFB", "CTR"}

(* C9: with a key bound and no IV, encrypt and decrypt in CBC, PCBC, CFB,   *)
(* OFB and CTR raise an error and return no block; for encrypt of non-empty *)
(* data the error is the missing IV.                                        *)
NullIvRejected ==
  (IsBlockOp /\ KeyBound(last.pre) /\ IsNull(last.pre.iv)
     /\ last.pre.mode \in ChainedOrCounter) =>
    /\ ~last.res.ok
    /\ IsNull(last.res.val)
    /\ (last.op = "encrypt" /\ Len(last.arg) > 0) => last.res.err = "MissingIv"

(* C9 happens: a CBC encrypt of a block was refused for the missing IV *)
NullIvRejectedWitness ==
  /\ last.op = "encrypt"
  /\ last.pre.mode = "CBC"
  /\ KeyBound(last.pre)
  /\ IsNull(last.pre.iv)
  /\ IsBlock(last.arg)
  /\ last.res.err = "MissingIv"

(* C10: setIv(iv) with a non-null iv raises an error and leaves the         *)
(* chaining state unchanged exactly when the length of iv is not the        *)
(* session's block size, 16; an iv of that size becomes the chaining state. *)
(* Refuted: setIv compares with the block size of the other cipher.         *)
SetIvRule ==
  (last.op = "setIv" /\ ~IsNull(last.arg)) =>
    IF Len(Val(last.arg)) # getBlockSizeBytes
    THEN ~last.res.ok /\ ctx.iv = last.pre.iv
    ELSE last.res.ok /\ ctx.iv = last.arg

(* the key lengths Cipher A accepts *)
AcceptedKeyLengths == {16, 24, 32}

(* C11: setMasterKey raises an error when the key is missing or its length  *)
(* is not 16, 24 or 32, and then the session's key, key schedule and block  *)
(* engine are as they were; for a length of 16, 24 or 32 it binds the key   *)
(* and installs the schedule derived from it.                               *)
SetMasterKeyRule ==
  (last.op = "setMasterKey") =>
    IF IsNull(last.arg) \/ Len(Val(last.arg)) \notin AcceptedKeyLengths
    THEN /\ last.res.err = "InvalidKeyLength"
         /\ ctx.masterKey_ = last.pre.masterKey_
         /\ ctx.keyExpansion = last.pre.keyExpansion
         /\ ctx.blockCipher = last.pre.blockCipher
    ELSE /\ last.res.ok
         /\ ctx.masterKey_ = last.arg
         /\ ctx.keyExpansion = KeyExpansionMemo[Val(last.arg)]
         /\ KeyBound(ctx)
         /\ ctx.blockCipher = "FeistelBlockCipher"

(* C11 happens: a key of a wrong length was refused by a session that has a *)
(* key bound                                                                *)
SetMasterKeyRuleWitness ==
  /\ last.op = "setMasterKey"
  /\ ~IsNull(last.arg)
  /\ Len(Val(last.arg)) \notin AcceptedKeyLengths
  /\ KeyBound(last.pre)
  /\ ~last.res.ok

(* C12: decrypt raises an error and returns no block whenever its input is  *)
(* empty or its length is not a multiple of the block size, in every mode.  *)
DecryptRejectsMisaligned ==
  (last.op = "decrypt"
     /\ (Len(last.arg) = 0 \/ Len(last.arg) % getBlockSizeBytes # 0)) =>
    /\ ~last.res.ok
    /\ IsNull(last.res.val)

(* C12 happens: with a key bound, decrypt refused half a block *)
DecryptRejectsMisalignedWitness ==
  /\ last.op = "decrypt"
  /\ KeyBound(last.pre)
  /\ Len(last.arg) = HALF_BLOCK_SIZE_BYTES
  /\ ~last.res.ok

(* C13: whenever encrypt or decrypt returns without raising an error, in    *)
(* any mode the session can be set to, what it returns is a byte block of   *)
(* exactly the block size, never null.                                      *)
(* Refuted: in mode RANDOM_DELTA encrypt leaves its result null and returns *)
(* it.                                                                      *)
ReturnsOneBlock ==
  (IsBlockOp /\ last.res.ok) =>
    /\ ~IsNull(last.res.val)
    /\ IsBlock(Val(last.res.val))

(* what _removePadding makes of what the last _addPadding call returned *)
RemovedAgain == removePadding(ctx, Val(last.res.val)).res

(* C14: under PKCS7 and ANSIX923, for every data of length 0..2*blockSize,  *)
(* _removePadding(_addPadding(data)) returns exactly data.                  *)
PaddingRoundTrip ==
  (last.op = "_addPadding" /\ last.pre.padding \in {"PKCS7", "ANSIX923"}) =>
    /\ last.res.ok
    /\ RemovedAgain = Ok(Some(last.arg))

(* C14 happens: block-aligned data got a whole block of PKCS7 padding *)
PaddingRoundTripWitness ==
  /\ last.op = "_addPadding"
  /\ last.pre.padding = "PKCS7"
  /\ Len(last.arg) = BLOCK_SIZE_BYTES
  /\ last.res.ok
  /\ Len(Val(last.res.val)) = 2 * BLOCK_SIZE_BYTES

(* the last p bytes of buffer d are all p *)
AllPadBytes(d, p) == \A j \in (Len(d) - p + 1)..Len(d) : d[j] = p

(* C15: under PKCS7, _removePadding on a block-aligned buffer with last     *)
(* byte p raises the padding-validation error when p = 0, p > blockSize or  *)
(* one of the last p bytes is not p; otherwise it returns the buffer        *)
(* without its last p bytes.                                                *)
Pkcs7RemovalRule ==
  (last.op = "_removePadding" /\ last.pre.padding = "PKCS7"
     /\ Len(last.arg) > 0 /\ Len(last.arg) % getBlockSizeBytes = 0) =>
    IF last.arg[Len(last.arg)] = 0
       \/ last.arg[Len(last.arg)] > getBlockSizeBytes
       \/ ~AllPadBytes(last.arg, last.arg[Len(last.arg)])
    THEN last.res.err = "PaddingValidationFailed" /\ IsNull(last.res.val)
    ELSE /\ last.res.ok
         /\ Val(last.res.val) =
              SubSeq(last.arg, 1, Len(last.arg) - last.arg[Len(last.arg)])

(* C15 happens: a buffer whose last byte declares two padding bytes, the    *)
(* other of which is not 2, was refused                                     *)
Pkcs7RemovalRuleWitness ==
  /\ last.op = "_removePadding"
  /\ last.pre.padding = "PKCS7"
  /\ Len(last.arg) = BLOCK_SIZE_BYTES
  /\ last.arg[BLOCK_SIZE_BYTES] = 2
  /\ last.arg[BLOCK_SIZE_BYTES - 1] # 2
  /\ last.res.err = "PaddingValidationFailed"

(* d without its trailing 0x00 bytes *)
WithoutTrailingZeros(d) ==
  SubSeq(d, 1, CHOOSE n \in 0..Len(d) :
                 /\ n = 0 \/ d[n] # 0
                 /\ \A j \in (n + 1)..Len(d) : d[j] = 0)

(* C16: under Zeros, _addPadding appends 1..blockSize 0x00 bytes up to the  *)
(* next multiple of blockSize, _removePadding strips every trailing 0x00,   *)
(* so _removePadding(_addPadding(d)) is d without its own trailing zeros,   *)
(* which is d exactly when d is empty or does not end in 0x00.              *)
ZerosPaddingRule ==
  /\ (last.op = "_addPadding" /\ last.pre.padding = "Zeros") =>
       /\ last.res.ok
       /\ Len(Val(last.res.val)) =
            ((Len(last.arg) \div getBlockSizeBytes) + 1) * getBlockSizeBytes
       /\ SubSeq(Val(last.res.val), 1, Len(last.arg)) = last.arg
       /\ \A j \in (Len(last.arg) + 1)..Len(Val(last.res.val)) :
            Val(last.res.val)[j] = 0
       /\ RemovedAgain = Ok(Some(WithoutTrailingZeros(last.arg)))
       /\ (RemovedAgain = Ok(Some(last.arg)))
            <=> (Len(last.arg) = 0 \/ last.arg[Len(last.arg)] # 0)
  /\ (last.op = "_removePadding" /\ last.pre.padding = "Zeros"
        /\ Len(last.arg) % getBlockSizeBytes = 0) =>
       last.res = Ok(Some(WithoutTrailingZeros(last.arg)))

(* C16 happens: data ending in 0x00 was padded with zeros, and removal      *)
(* would not give it back                                                   *)
ZerosPaddingRuleWitness ==
  /\ last.op = "_addPadding"
  /\ last.pre.padding = "Zeros"
  /\ Len(last.arg) > 2
  /\ last.arg[Len(last.arg)] = 0
  /\ last.arg[1] # 0
  /\ last.res.ok
  /\ RemovedAgain # Ok(Some(last.arg))

(* C18: a CBC ciphertext c1, c2, c3 decrypted from the same IV after bits   *)
(* of c1 only were flipped: the second decrypted block differs from the     *)
(* second plaintext block in exactly the flipped bits, and the third and    *)
(* later decrypted blocks are the plaintext blocks.                         *)
(* Refuted: no CBC ciphertext comes to exist (C3, C10), and decrypt raises  *)
(* whatever it is given (C1).                                               *)
CbcErrorPropagation ==
  (tc.pc = "done" /\ tc.mode = "CBC" /\ tc.iv \in BlockSizedIvs
     /\ tc.flip # NoFlip) =>
    /\ tc.d[2] = Ok(Some(Xor(tc.m[2], tc.flip)))
    /\ \A i \in 3..NTripBlocks : tc.d[i] = Ok(Some(tc.m[i]))

(* C19: encryptFile pads the message with the session's scheme and encrypts *)
(* it block by block, so its output is as long as the padded message, a     *)
(* multiple of the block size covering the whole input, and decryptFile of  *)
(* that output on the same session returns the message.                     *)
(* Refuted: each helper hands the whole message to one encrypt or decrypt   *)
(* call and pads nothing.                                                   *)
FileRoundTrip ==
  (last.op = "encryptFile" /\ ~IsNull(last.arg) /\ KeyBound(last.pre)
     /\ last.pre.mode = "ECB" /\ last.pre.padding \in {"PKCS7", "ANSIX923"}) =>
    /\ last.res.ok
    /\ Len(Val(last.res.val)) % getBlockSizeBytes = 0
    /\ Len(Val(last.res.val)) = Len(Val(last.arg)) + paddingLengthOf(Val(last.arg))
    /\ decryptFile(ctx, last.res.val).res = Ok(last.arg)

(* the operations that are to leave the key schedule alone *)
ScheduleReaders ==
  {"encrypt", "decrypt", "setIv", "setMode", "setPadding", "encryptFile",
   "decryptFile", "_addPadding", "_removePadding"}

(* C20: once setMasterKey has succeeded, the round-key words and S-boxes of *)
(* the session are those derived from the bound key, whatever encrypt,      *)
(* decrypt, setIv, setMode and setPadding calls, successful or failing,     *)
(* came after; none of these calls changes the schedule.                    *)
ScheduleNeverMutated ==
  /\ ~IsNull(ctx.masterKey_) =>
       ctx.keyExpansion = KeyExpansionMemo[Val(ctx.masterKey_)]
  /\ last.op \in ScheduleReaders => ctx.keyExpansion = last.pre.keyExpansion

(* C20 happens: a session bound to a 24-byte key has encrypted two blocks   *)
(* worth of data in ECB mode                                                *)
ScheduleNeverMutatedWitness ==
  /\ last.op = "encrypt"
  /\ last.pre.mode = "ECB"
  /\ ~IsNull(last.pre.masterKey_)
  /\ Len(Val(last.pre.masterKey_)) = 24
  /\ Len(last.arg) = 2 * BLOCK_SIZE_BYTES
  /\ last.res.ok

(* the schedule a session constructed for the purpose derives from each key *)
FreshSchedule ==
  [k \in ValidKeys |-> setMasterKey(NewCipherContext, Some(k)).ctx.keyExpansion]

(* the table a schedule object constructed for the purpose derives from each *)
(* key with an engine constructed for the purpose on each substitution table *)
FreshTable ==
  [stable \in Stables |-> [k \in MacGuffinKeys |->
     MacGuffinKeyExpansion(
       k, [blockCipher |-> NewMacGuffinEngine(stable, MACGUFFIN_NUM_ROUNDS)]).roundKeys_]]

(* C17: key-schedule derivation is deterministic.  Whatever keys were bound *)
(* and blocks processed before, a session that binds a key holds the round  *)
(* keys and S-boxes any other session derives from equal key bytes; and a   *)
(* MacGuffin-style schedule, newly constructed or derived again on an       *)
(* existing schedule object, after whatever derivations and block           *)
(* operations, holds the 96-word table any other derivation from equal key  *)
(* bytes with the same engine yields.                                       *)
ScheduleDeterminism ==
  /\ (last.op = "setMasterKey" /\ last.res.ok) =>
       ctx.keyExpansion = FreshSchedule[Val(last.arg)]
  /\ (OnMacGuffin /\ mg.op \in {"new KeyExpansion", "generateRoundKeys"}) =>
       /\ Val(mg.keyExpansion).roundKeys_ = FreshTable[mg.blockCipher.stable_][mg.arg]
       /\ Len(Val(Val(mg.keyExpansion).roundKeys_).val) = KSIZE

(* C17 happens: a table is derived again on a schedule object that held the *)
(* table of another key, and the two tables differ                          *)
ScheduleDeterminismWitness ==
  /\ OnMacGuffin
  /\ mg.op = "generateRoundKeys"
  /\ ~IsNull(mg.pre)
  /\ Val(mg.pre).roundKeys_ # Val(mg.keyExpansion).roundKeys_
  /\ Val(mg.pre).roundKeys_ \in {FreshTable[mg.blockCipher.stable_][k] : k \in MacGuffinKeys}

(* the product of the polynomials a and b over GF(2), not reduced *)
RECURSIVE CarryLess(_, _)
CarryLess(a, b) ==
  IF b = 0 THEN 0
  ELSE XorNat(IF b % 2 = 1 THEN a ELSE 0, 2 * CarryLess(a, b \div 2))

(* p modulo the polynomial RS_POLY, for p of degree at most d *)
RECURSIVE PolyMod(_, _)
PolyMod(p, d) ==
  IF d < 8 THEN p
  ELSE PolyMod(IF (p \div (2 ^ d)) % 2 = 1 THEN XorNat(p, RS_POLY * (2 ^ (d - 8))) ELSE p,
               d - 1)

(* C27: for all bytes a and b, multiplyGF(a, b) is a byte, the carry-less   *)
(* product of a and b reduced modulo 0x169; it is the same with a and b     *)
(* exchanged, multiplyGF(a, 1) = a and multiplyGF(a, 0) = 0.                *)
MultiplyGFIsFieldProduct ==
  (last.op = "multiplyGF") =>
    /\ RS_POLY = 256 + 64 + 32 + 8 + 1
    /\ last.res.ok
    /\ last.res.val \in 0..255
    /\ last.res.val = PolyMod(CarryLess(last.arg[1], last.arg[2]), 14)
    /\ last.res.val = multiplyGF(last.arg[2], last.arg[1])
    /\ last.arg[2] = 1 => last.res.val = last.arg[1]
    /\ last.arg[2] = 0 => last.res.val = 0

(* C27 happens: two bytes with the top bit set were multiplied, so that the *)
(* reduction step ran                                                       *)
MultiplyGFIsFieldProductWitness ==
  /\ last.op = "multiplyGF"
  /\ last.arg[1] >= 128
  /\ last.arg[2] >= 128
  /\ CarryLess(last.arg[1], last.arg[2]) >= 256

(* p mod 2^32 as a number in 0..2^32-1 *)
Mod32(p) == <<p[1] % W16, p[2]>>

InUint32(p) == p[1] \in 0..(W16 - 1) /\ p[2] \in 0..(W16 - 1)

(* C28: for all 32-bit words a and b as h and gFunction return them, those  *)
(* with the top bit set included, PHT(a, b) is the pair                     *)
(* ((a + b) mod 2^32, (a + 2b) mod 2^32), each component in 0..2^32-1.      *)
PhtRule ==
  (last.op = "PHT") =>
    /\ last.res.val[1] = Mod32(NumAdd(NumOf(last.arg[1]), NumOf(last.arg[2])))
    /\ last.res.val[2] =
         Mod32(NumAdd(NumOf(last.arg[1]), NumAdd(NumOf(last.arg[2]), NumOf(last.arg[2]))))
    /\ InUint32(last.res.val[1])
    /\ InUint32(last.res.val[2])

(* the pair PHT(h(2i, M), h(2i + 1, M)) of the index values 2i and 2i + 1 *)
IndexedPair(i, M) == PHT(NumOf(h(NumOf(2 * i), M)), NumOf(h(NumOf(2 * i + 1), M)))

(* C24: for every key length 16, 24 and 32 the schedule holds exactly 40    *)
(* round-key words, and for every i in 0..19 the words 2i and 2i + 1 are    *)
(* the pair PHT(h(2i, M), h(2i + 1, M)), h applied to the index values and  *)
(* M the vector of key words.                                               *)
RoundKeysFromIndices ==
  (last.op = "setMasterKey" /\ last.res.ok) =>
    /\ Len(roundKeysOf(ctx)) = 40
    /\ \A i \in 0..19 :
         /\ At(roundKeysOf(ctx), 2 * i) = IndexedPair(i, keyM(Val(last.arg)))[1]
         /\ At(roundKeysOf(ctx), 2 * i + 1) = IndexedPair(i, keyM(Val(last.arg)))[2]

(* C25: after the key schedule has been constructed it holds exactly four   *)
(* S-boxes of 256 entries each, and every entry is a byte value in 0..255.  *)
SBoxesAreByteTables ==
  (last.op = "setMasterKey" /\ last.res.ok) =>
    /\ Len(Val(ctx.keyExpansion.sBoxes)) = 4
    /\ \A i \in 1..4 :
         /\ Len(Val(ctx.keyExpansion.sBoxes)[i]) = 256
         /\ \A j \in 1..256 : Val(ctx.keyExpansion.sBoxes)[i][j] \in 0..255

(* C26: the block engine raises an error, and returns no block, for every   *)
(* input whose length is not exactly 16 bytes, in encryptBlock as in        *)
(* decryptBlock.                                                            *)
EngineRejectsOtherLengths ==
  (last.op \in {"encryptBlock", "decryptBlock"} /\ Len(last.arg.blk) # BLOCK_SIZE_BYTES) =>
    ~last.res.ok

(* the words of the block the engine was called with, as the rounds see them *)
WordsOfArg == firstFourWords(bytesToWords(last.arg.blk))

(* the engine applied to a block with the schedule of the call *)
EncryptedWith(a, blk) == encryptBlock(blk, Val(a.ke.roundKeys), a.ke)

DecryptedWith(a, blk) == decryptBlock(blk, Val(a.ke.roundKeys), a.ke)

(* C22: for every 16-byte block and every key schedule, decryptBlock undoes *)
(* encryptBlock and encryptBlock undoes decryptBlock; round by round, the   *)
(* decryption round r, which undoes the half-swap where encryption made it  *)
(* and inverts the update of w2 and w3, returns the words encryption round  *)
(* r started from.                                                          *)
EngineInverse ==
  (last.op \in {"encryptBlock", "decryptBlock"} /\ Len(last.arg.blk) = BLOCK_SIZE_BYTES) =>
    /\ last.res.ok
    /\ Len(last.res.val) = BLOCK_SIZE_BYTES
    /\ last.op = "encryptBlock" => DecryptedWith(last.arg, last.res.val) = Ok(last.arg.blk)
    /\ last.op = "decryptBlock" => EncryptedWith(last.arg, last.res.val) = Ok(last.arg.blk)
    /\ \A r \in 0..(NUM_ROUNDS - 1) :
         decryptRound(encryptRound(WordsOfArg, r, Val(last.arg.ke.roundKeys),
                                   Val(last.arg.ke.sBoxes)),
                      r, Val(last.arg.ke.roundKeys), Val(last.arg.ke.sBoxes)) = WordsOfArg

(* C22 happens: a block was encrypted to a different block under a         *)
(* schedule derived from a key                                             *)
EngineInverseWitness ==
  /\ last.op = "encryptBlock"
  /\ Len(last.arg.blk) = BLOCK_SIZE_BYTES
  /\ last.arg.ke # OtherSchedule
  /\ last.res.ok
  /\ last.res.val # last.arg.blk

(* the round-key table the MacGuffin-style block operation was called with *)
TableOfCall == Val(Val(mg.keyExpansion).roundKeys_)

(* C23: for every 8-byte block, round-key table and substitution table,     *)
(* decryptBlock undoes encryptBlock; each sub-round undoes itself, so the   *)
(* 32 sub-rounds taken in reversed order with the key words in reversed     *)
(* order return the registers; every key-word index read is in 0..95.       *)
MacGuffinEngineInverse ==
  (OnMacGuffin /\ mg.op = "encryptBlock") =>
    /\ Len(Val(mg.res)) = MACGUFFIN_BLOCK_SIZE_BYTES
    /\ macGuffinDecryptBlock(mg.blockCipher, Val(mg.res), TableOfCall) = mg.arg
    /\ Len(TableOfCall.val) = KSIZE
    /\ \A i \in 0..((MACGUFFIN_NUM_ROUNDS \div 4) - 1), s \in 0..3 :
         /\ subRound(subRound(registersOf(mg.arg), TableOfCall.val, i, s, mg.blockCipher),
                     TableOfCall.val, i, s, mg.blockCipher) = registersOf(mg.arg)
         /\ \A t \in 0..2 : i * 12 + 3 * s + t \in 0..(KSIZE - 1)

(* C23 happens: a block was encrypted to a different block with a table     *)
(* derived from a key and a substitution table with an entry for every index *)
MacGuffinEngineInverseWitness ==
  /\ OnMacGuffin
  /\ mg.op = "encryptBlock"
  /\ mg.blockCipher.stable_.len = W16
  /\ Val(mg.res) # mg.arg
  /\ TableOfCall # ZeroKey

(* C29: an encrypt or decrypt call that raises an error, whatever the error *)
(* and in every mode, OFB included, leaves the chaining state, the mode,    *)
(* the padding and the key schedule of the session as they were before it.  *)
FailedBlockOpChangesNothing ==
  (IsBlockOp /\ ~last.res.ok) =>
    /\ ctx.iv = last.pre.iv
    /\ ctx.mode = last.pre.mode
    /\ ctx.padding = last.pre.padding
    /\ ctx.keyExpansion = last.pre.keyExpansion
    /\ ctx = last.pre

(* C29 happens: encrypt in OFB mode, with a key bound and an IV held, got   *)
(* as far as the update of the chaining state and raised there              *)
FailedBlockOpChangesNothingWitness ==
  /\ last.op = "encrypt"
  /\ last.pre.mode = "OFB"
  /\ KeyBound(last.pre)
  /\ ~IsNull(last.pre.iv)
  /\ Len(last.arg) > 0
  /\ ~last.res.ok
  /\ last.res.err = "InvalidIvLength"

(* C30: on a session on which setMasterKey has never succeeded, every       *)
(* encrypt and decrypt call, in every mode and with any IV, raises an       *)
(* error, returns no block and leaves the session as it was; only a         *)
(* successful setMasterKey binds a key, so a block is returned only after   *)
(* one.                                                                     *)
NoOutputBeforeKey ==
  /\ (IsBlockOp /\ ~KeyBound(last.pre)) =>
       /\ ~last.res.ok
       /\ IsNull(last.res.val)
       /\ ctx = last.pre
  /\ (IsBlockOp /\ last.res.ok /\ ~IsNull(last.res.val)) => ~IsNull(last.pre.masterKey_)
  /\ KeyBound(ctx) <=> ~IsNull(ctx.masterKey_)
  /\ (last.op # "none" /\ KeyBound(ctx) /\ ~KeyBound(last.pre)) =>
       (last.op = "setMasterKey" /\ last.res.ok)

(* C30 happens: decrypt of a block on a session with no key bound, in CTR   *)
(* mode and with an IV held                                                 *)
NoOutputBeforeKeyWitness ==
  /\ last.op = "decrypt"
  /\ ~KeyBound(last.pre)
  /\ IsNull(last.pre.masterKey_)
  /\ last.pre.mode = "CTR"
  /\ ~IsNull(last.pre.iv)
  /\ IsBlock(last.arg)
  /\ ~last.res.ok

=============================================================================
